---- MODULE Spec2Model ----
(***************************************************************************)
(* CardSense: the data-extraction reconciliation engine of the API route   *)
(* (src/unnamed/part_002, "src/app/api/chat/route.ts").                    *)
(*                                                                         *)
(* JavaScript values are modelled as tagged records.  A number n/100 is    *)
(* Num(n): every amount is kept in hundredths, so 2000.00 is Num(200000)   *)
(* and 150 reward points are Num(15000).  A string is Str(s) with s the    *)
(* sequence of its characters.  An object is Obj(f) with f a function from *)
(* its own keys to values; a read of a missing key gives Undefined.        *)
(***************************************************************************)
EXTENDS Integers, Sequences, FiniteSets, TLC

VARIABLES
    pc,           \* position of the modelled call sequence
    aiData,       \* the object parsed from the LLM response (robustDataMerging's 1st argument)
    aiBefore,     \* aiData as it was when robustDataMerging was entered
    patternData,  \* patternMatchedData (robustDataMerging's 2nd argument)
    mergedData,   \* value returned by robustDataMerging, or Threw
    data,         \* argument of finalValidationAndCalculation
    finalData,    \* value returned by finalValidationAndCalculation
    value,        \* argument of a direct isValidData call
    result,       \* what that call returned
    llm,          \* what the environment does to the LLM call (key, fetch outcome)
    response,     \* what callGeminiApi returned, or Threw
    text,         \* argument of extractTransactionsFromText
    transactions, \* what extractTransactionsFromText returned
    customerData, \* what extractCustomerInfoFromText returned
    extractedContents, \* the session store
    requests,     \* the requests being handled, each with its position
    replies,      \* the responses sent so far, by request
    llmCalls,     \* number of calls of callGeminiApi made by the request handlers
    read,         \* what handleChatWithPDF last read as extracted_10_data
    assistant,    \* the state of the assistant page (AssistantPage)
    timers,       \* the timers set by the startConversation calls, in order of the calls
    home,         \* the state of the home page (HomePage)
    awaiting      \* the calls of the home page that wait for a fetch

callVars == <<llm, response>>

extractVars == <<text, transactions, customerData>>

serverVars == <<extractedContents, requests, replies, llmCalls, read>>

clientVars == <<assistant, timers, home, awaiting>>

vars == <<pc, aiData, aiBefore, patternData, mergedData, data, finalData, value, result,
          callVars, extractVars, serverVars, clientVars>>

---------------------------------------------------------------------------
(* JavaScript values *)

Null      == [t |-> "null"]
Undefined == [t |-> "undefined"]
NaN       == [t |-> "nan"]
Num(n)    == [t |-> "num", num |-> n]
Str(s)    == [t |-> "str", str |-> s]
Bool(b)   == [t |-> "bool", bool |-> b]
Arr(a)    == [t |-> "arr", arr |-> a]
Obj(f)    == [t |-> "obj", obj |-> f]

\* no record has been produced yet / the call threw
NoRecord == [t |-> "none"]
Threw    == [t |-> "threw"]

\* o[k] on an object: a missing key, or a property read on a primitive, is undefined
Get(o, k) == IF o.t = "obj" /\ k \in DOMAIN o.obj THEN o.obj[k] ELSE Undefined

\* k in o
HasKey(o, k) == o.t = "obj" /\ k \in DOMAIN o.obj

\* o with o[k] = v
Put(o, k, v) == Obj([x \in (DOMAIN o.obj) \cup {k} |-> IF x = k THEN v ELSE o.obj[x]])

EmptyObj == Obj(<<>>)

\* "absent" stands for a key the object does not have
Absent == [t |-> "absent"]

---------------------------------------------------------------------------
(* String.prototype.toLowerCase, character by character *)

UpperLetters == <<"A","B","C","D","E","F","G","H","I","J","K","L","M",
                  "N","O","P","Q","R","S","T","U","V","W","X","Y","Z">>
LowerLetters == <<"a","b","c","d","e","f","g","h","i","j","k","l","m",
                  "n","o","p","q","r","s","t","u","v","w","x","y","z">>

toLowerCaseChar(c) ==
    IF \E i \in 1..26 : UpperLetters[i] = c
    THEN LowerLetters[CHOOSE i \in 1..26 : UpperLetters[i] = c]
    ELSE c

toLowerCase(s) == [i \in 1..Len(s) |-> toLowerCaseChar(s[i])]

\* ['null', 'na', 'n/a', '', 'undefined']
InvalidStrings ==
    { <<"n","u","l","l">>, <<"n","a">>, <<"n","/","a">>, <<>>,
      <<"u","n","d","e","f","i","n","e","d">> }

\* mutant: the comparison forgets toLowerCase
isValidDataCaseSensitive(v) ==
    CASE v.t \in {"null", "undefined", "nan"} -> FALSE
      [] v.t = "num" -> TRUE
      [] v.t = "arr" -> Len(v.arr) # 0
      [] v.t = "obj" -> DOMAIN v.obj # {}
      [] v.t = "str" -> v.str \notin InvalidStrings
      [] OTHER -> TRUE

isValidData(v) ==
    CASE v.t \in {"null", "undefined"} -> FALSE
      [] v.t = "nan" -> FALSE
      [] v.t = "num" -> TRUE
      [] v.t = "arr" -> Len(v.arr) # 0
      [] v.t = "obj" -> DOMAIN v.obj # {}
      [] v.t = "str" -> toLowerCase(v.str) \notin InvalidStrings
      [] OTHER -> TRUE

\* JavaScript truthiness, as used by `x && ...` and `!x`
Truthy(v) ==
    CASE v.t \in {"null", "undefined", "nan"} -> FALSE
      [] v.t = "num" -> v.num # 0
      [] v.t = "str" -> Len(v.str) # 0
      [] v.t = "bool" -> v.bool
      [] OTHER -> TRUE

---------------------------------------------------------------------------
(* Number <-> string conversions and the arithmetic operators            *)

DigitChars == <<"0","1","2","3","4","5","6","7","8","9">>

IsDigit(c) == \E i \in 1..10 : DigitChars[i] = c

DigitValue(c) == (CHOOSE i \in 1..10 : DigitChars[i] = c) - 1

RECURSIVE DigitsToNat(_)
DigitsToNat(s) ==
    IF s = <<>> THEN 0
    ELSE 10 * DigitsToNat(SubSeq(s, 1, Len(s) - 1)) + DigitValue(s[Len(s)])

RECURSIVE NatToDigits(_)
NatToDigits(n) ==
    IF n < 10 THEN <<DigitChars[n + 1]>>
    ELSE NatToDigits(n \div 10) \o <<DigitChars[(n % 10) + 1]>>

RECURSIVE TrimLeft(_)
TrimLeft(s) == IF s # <<>> /\ s[1] = " " THEN TrimLeft(Tail(s)) ELSE s

RECURSIVE TrimRight(_)
TrimRight(s) ==
    IF s # <<>> /\ s[Len(s)] = " " THEN TrimRight(SubSeq(s, 1, Len(s) - 1)) ELSE s

\* index of the first "." of s, Len(s) + 1 when there is none
PointIndex(s) ==
    IF \E i \in 1..Len(s) : s[i] = "."
    THEN CHOOSE i \in 1..Len(s) : s[i] = "." /\ \A j \in 1..(i - 1) : s[j] # "."
    ELSE Len(s) + 1

AllDigits(s) == \A i \in 1..Len(s) : IsDigit(s[i])

\* the value, in hundredths, of intPart "." fraction
DecimalValue(intPart, fraction) ==
    100 * DigitsToNat(intPart)
      + (IF Len(fraction) = 1 THEN 10 * DigitsToNat(fraction) ELSE DigitsToNat(fraction))

\* an unsigned decimal literal split at its point
UnsignedLiteral(intPart, fraction, negative) ==
    IF /\ AllDigits(intPart) /\ AllDigits(fraction)
       /\ Len(intPart) + Len(fraction) >= 1
       /\ Len(fraction) <= 2
    THEN Num(IF negative THEN 0 - DecimalValue(intPart, fraction)
             ELSE DecimalValue(intPart, fraction))
    ELSE NaN

SplitAtPoint(body, p, negative) ==
    UnsignedLiteral(SubSeq(body, 1, p - 1), SubSeq(body, p + 1, Len(body)), negative)

TrimmedToNumber(trimmed) ==
    IF trimmed = <<>> THEN Num(0)
    ELSE IF trimmed[1] \in {"-", "+"}
         THEN SplitAtPoint(Tail(trimmed), PointIndex(Tail(trimmed)), trimmed[1] = "-")
         ELSE SplitAtPoint(trimmed, PointIndex(trimmed), FALSE)

\* ToNumber applied to a string: surrounding blanks are dropped, the empty
\* string is 0, a decimal literal (optional sign, digits, optional point and
\* up to two fraction digits) is its value, everything else is NaN.
\* Literals with an exponent, a radix prefix or more than two fraction
\* digits have no representation in hundredths and are not produced here.
StringToNumber(s) == TrimmedToNumber(TrimRight(TrimLeft(s)))

\* the digits of m/100, m >= 0
UnsignedToString(m) ==
    NatToDigits(m \div 100) \o
        (IF m % 100 = 0 THEN <<>>
         ELSE IF m % 10 = 0 THEN <<".", DigitChars[((m % 100) \div 10) + 1]>>
         ELSE <<".", DigitChars[((m % 100) \div 10) + 1], DigitChars[(m % 10) + 1]>>)

\* Number.prototype.toString of n/100
NumberToString(n) ==
    IF n < 0 THEN <<"-">> \o UnsignedToString(0 - n) ELSE UnsignedToString(n)

\* ToNumber on a primitive; a plain object converts to NaN.
\* (Arrays convert through their string form; no array is used as an operand.)
ToNumber(v) ==
    CASE v.t = "num" -> v
      [] v.t = "null" -> Num(0)
      [] v.t = "bool" -> Num(IF v.bool THEN 100 ELSE 0)
      [] v.t = "str" -> StringToNumber(v.str)
      [] OTHER -> NaN

\* ToString on a primitive
ToStringJS(v) ==
    CASE v.t = "str" -> v.str
      [] v.t = "num" -> NumberToString(v.num)
      [] v.t = "null" -> <<"n","u","l","l">>
      [] v.t = "undefined" -> <<"u","n","d","e","f","i","n","e","d">>
      [] v.t = "nan" -> <<"N","a","N">>
      [] v.t = "bool" -> IF v.bool THEN <<"t","r","u","e">> ELSE <<"f","a","l","s","e">>

\* mutant: the operands of the subtraction are exchanged
SubNumbersSwapped(x, y) ==
    IF x.t = "nan" \/ y.t = "nan" THEN NaN ELSE Num(y.num - x.num)

\* x - y on numbers
SubNumbers(x, y) ==
    IF x.t = "nan" \/ y.t = "nan" THEN NaN ELSE Num(x.num - y.num)

\* x + y on numbers
AddNumbers(x, y) ==
    IF x.t = "nan" \/ y.t = "nan" THEN NaN ELSE Num(x.num + y.num)

\* a - b
JsSub(a, b) == SubNumbers(ToNumber(a), ToNumber(b))

\* a + b : concatenation as soon as one operand is a string
JsAdd(a, b) ==
    IF a.t = "str" \/ b.t = "str"
    THEN Str(ToStringJS(a) \o ToStringJS(b))
    ELSE AddNumbers(ToNumber(a), ToNumber(b))

\* The totals (in hundredths, below 100.00) whose exact 5% ends in half a
\* hundredth and for which the IEEE-754 double product  t * 0.05 * 100  comes
\* out just below that half, e.g. 0.7 * 0.05 * 100 = 3.4999999999999996.
\* Away from such a half the product is at least 0.05 off it, far more than
\* the rounding error of the product, and Math.round gives the exact
\* rounding; the totals of 100.00 and more used below are of that kind.
DoubleProductBelowHalf ==
    {70, 290, 2070, 4230, 4390, 4730, 8030, 8210, 8530, 8710, 9030, 9210, 9530}

\* Math.round(t * 0.05 * 100) for a total of c hundredths, c >= 0
MathRoundFivePercent(c) ==
    IF c \in DoubleProductBelowHalf THEN (c * 5) \div 100
    ELSE (c * 5 + 50) \div 100

\* Math.round(x * 0.05 * 100) / 100 on a number
RoundNumber(x) == IF x.t = "nan" THEN NaN ELSE Num(MathRoundFivePercent(x.num))

\* Math.round((total as number) * 0.05 * 100) / 100
FivePercentOf(total) == RoundNumber(ToNumber(total))

\* a ?? b
Nullish(a, b) == IF a.t \in {"null", "undefined"} THEN b ELSE a

---------------------------------------------------------------------------
(* The reconciliation functions *)

Fields ==
    {"customer_name", "statement_date", "payment_due_date", "total_amount_due",
     "minimum_amount_due", "credit_limit", "available_credit_limit", "card_number",
     "transactions", "reward_points_summary", "bank_name"}

RewardKeys == {"opening_balance", "earned", "closing_balance"}

createCompleteFallbackData ==
    Obj([f \in Fields |->
           CASE f = "transactions" -> Arr(<<>>)
             [] f = "reward_points_summary" -> Obj([k \in RewardKeys |-> Null])
             [] OTHER -> Null])

\* typeof v === 'object'
TypeofObject(v) == v.t \in {"obj", "arr", "null"}

\* mutant: the input is taken as it is, without the fallback under it
CopyValidFieldsOnly(d) == d

\* for (const field in validatedData) ... : the usable values of d over the fallback
CopyValidFields(d) ==
    Obj([f \in Fields |->
        IF HasKey(d, f) /\ isValidData(d.obj[f])
        THEN IF f = "reward_points_summary" /\ TypeofObject(d.obj[f])
             THEN Obj([k \in RewardKeys |-> Nullish(Get(d.obj[f], k), Null)])
             ELSE d.obj[f]
        ELSE createCompleteFallbackData.obj[f]])

\* Calculate available credit if missing
CalculateAvailableCredit(v) ==
    IF /\ isValidData(Get(v, "credit_limit"))
       /\ isValidData(Get(v, "total_amount_due"))
       /\ ~isValidData(Get(v, "available_credit_limit"))
    THEN Put(v, "available_credit_limit",
             JsSub(Get(v, "credit_limit"), Get(v, "total_amount_due")))
    ELSE v

\* mutant: the earned points are added to the closing balance at hand
ClosingBalanceAccumulates(rewardSummary) ==
    IF /\ isValidData(Get(rewardSummary, "opening_balance"))
       /\ isValidData(Get(rewardSummary, "earned"))
    THEN Put(rewardSummary, "closing_balance",
             JsAdd(IF isValidData(Get(rewardSummary, "closing_balance"))
                   THEN Get(rewardSummary, "closing_balance")
                   ELSE Get(rewardSummary, "opening_balance"),
                   Get(rewardSummary, "earned")))
    ELSE rewardSummary

\* the assignment rewardSummary.closing_balance = ... when its guard holds
ClosingBalance(rewardSummary) ==
    IF /\ isValidData(Get(rewardSummary, "opening_balance"))
       /\ isValidData(Get(rewardSummary, "earned"))
       /\ ~isValidData(Get(rewardSummary, "closing_balance"))
    THEN Put(rewardSummary, "closing_balance",
             JsAdd(Get(rewardSummary, "opening_balance"), Get(rewardSummary, "earned")))
    ELSE rewardSummary

\* Calculate closing reward balance if missing
CalculateClosingBalance(v) ==
    Put(v, "reward_points_summary", ClosingBalance(Get(v, "reward_points_summary")))

\* Set minimum amount due as 5% of total amount due if missing
CalculateMinimumDue(v) ==
    IF /\ isValidData(Get(v, "total_amount_due"))
       /\ ~isValidData(Get(v, "minimum_amount_due"))
    THEN Put(v, "minimum_amount_due", FivePercentOf(Get(v, "total_amount_due")))
    ELSE v

finalValidationAndCalculation(d) ==
    CalculateMinimumDue(CalculateClosingBalance(CalculateAvailableCredit(CopyValidFields(d))))

\* mergedData[field]?.length || 0
LengthOrZero(v) ==
    CASE v.t = "arr" -> Len(v.arr)
      [] v.t = "str" -> Len(v.str)
      [] v.t = "obj" -> IF HasKey(v, "length") /\ Truthy(v.obj["length"]) /\ v.obj["length"].t = "num"
                        THEN v.obj["length"].num ELSE 0
      [] OTHER -> 0

highPriorityFields == <<"customer_name", "card_number", "bank_name", "transactions">>
financialFields == <<"total_amount_due", "minimum_amount_due", "credit_limit", "available_credit_limit">>
dateFields == <<"statement_date", "payment_due_date">>
rewardFields == <<"opening_balance", "earned", "closing_balance">>

\* mutant: a high-priority field is only filled where the LLM left a gap
MergeHighPriorityFillGap(m, p, field) ==
    LET pv == Get(p, field)
        mv == Get(m, field)
    IN  IF Truthy(pv) /\ isValidData(pv)
        THEN IF field = "transactions"
             THEN IF pv.t = "arr" /\ Len(pv.arr) > LengthOrZero(mv)
                  THEN Put(m, field, pv) ELSE m
             ELSE IF ~Truthy(mv) \/ ~isValidData(mv) THEN Put(m, field, pv) ELSE m
        ELSE m

\* body of the loop over highPriorityFields
MergeHighPriority(m, p, field) ==
    LET pv == Get(p, field)
    IN  IF Truthy(pv) /\ isValidData(pv)
        THEN IF field = "transactions"
             THEN IF pv.t = "arr" /\ Len(pv.arr) > LengthOrZero(Get(m, field))
                  THEN Put(m, field, pv) ELSE m
             ELSE Put(m, field, pv)
        ELSE m

\* body of the loops over financialFields and dateFields
MergeFillGap(m, p, field) ==
    LET pv == Get(p, field)
        mv == Get(m, field)
    IN  IF Truthy(pv) /\ isValidData(pv) /\ (~Truthy(mv) \/ ~isValidData(mv))
        THEN Put(m, field, pv)
        ELSE m

\* body of the loop over rewardFields; st.rps is mergedData.reward_points_summary.
\* The module is strict-mode code: creating a property on a primitive throws.
MergeReward(st, prps, field) ==
    LET pv  == Get(prps, field)
        cur == st.rps
    IN  IF st.threw THEN st
        ELSE IF /\ Truthy(pv) /\ isValidData(pv)
                /\ (~Truthy(cur) \/ ~Truthy(Get(cur, field)) \/ ~isValidData(Get(cur, field)))
        THEN LET base == IF ~Truthy(cur) THEN EmptyObj ELSE cur
             IN  CASE base.t = "obj" -> [rps |-> Put(base, field, pv), threw |-> FALSE]
                   [] base.t \in {"str", "num", "bool"} -> [rps |-> cur, threw |-> TRUE]
        ELSE st

\* for (const field of highPriorityFields) ...
RECURSIVE MergeHighPriorityLoop(_, _, _)
MergeHighPriorityLoop(m, p, fields) ==
    IF fields = <<>> THEN m
    ELSE MergeHighPriorityLoop(MergeHighPriority(m, p, Head(fields)), p, Tail(fields))

\* for (const field of financialFields) ... / for (const field of dateFields) ...
RECURSIVE MergeFillGapLoop(_, _, _)
MergeFillGapLoop(m, p, fields) ==
    IF fields = <<>> THEN m
    ELSE MergeFillGapLoop(MergeFillGap(m, p, Head(fields)), p, Tail(fields))

\* for (const field of rewardFields) ...
RECURSIVE MergeRewardLoop(_, _, _)
MergeRewardLoop(st, prps, fields) ==
    IF fields = <<>> THEN st
    ELSE MergeRewardLoop(MergeReward(st, prps, Head(fields)), prps, Tail(fields))

\* if (patternData.reward_points_summary) { for (const field of rewardFields) ... }
MergeRewards(rps0, prps) ==
    IF Truthy(prps)
    THEN MergeRewardLoop([rps |-> rps0, threw |-> FALSE], prps, rewardFields)
    ELSE [rps |-> rps0, threw |-> FALSE]

\* What the reward loop leaves behind.  m is mergedData before the loop and
\* rps0 its reward_points_summary: mergedData = { ...aiData } shares that
\* nested object with aiData, so a write into it shows in aiData as well;
\* an object created by the loop belongs to mergedData alone.
AfterRewards(ai, m, rps0, st) ==
    [merged |-> IF st.threw THEN Threw
                ELSE IF st.rps = rps0 THEN m
                ELSE Put(m, "reward_points_summary", st.rps),
     ai     |-> IF Truthy(rps0) /\ rps0.t = "obj" /\ st.rps # rps0
                THEN Put(ai, "reward_points_summary", st.rps)
                ELSE ai]

WithRewards(ai, m, rps0, p) ==
    AfterRewards(ai, m, rps0, MergeRewards(rps0, Get(p, "reward_points_summary")))

MergeTopLevel(ai, p) ==
    MergeFillGapLoop(
        MergeFillGapLoop(MergeHighPriorityLoop(ai, p, highPriorityFields), p, financialFields),
        p, dateFields)

MergeFrom(ai, m, p) == WithRewards(ai, m, Get(m, "reward_points_summary"), p)

\* robustDataMerging(aiData, patternData): the returned object (or Threw) and
\* aiData afterwards
robustDataMerging(ai, p) == MergeFrom(ai, MergeTopLevel(ai, p), p)

\* the catch block of extract10DataPointsWithGemini: the pattern-only record
fallbackFromPattern(p) ==
    Obj([f \in Fields |->
           IF HasKey(p, f) /\ isValidData(p.obj[f]) THEN p.obj[f]
           ELSE createCompleteFallbackData.obj[f]])

---------------------------------------------------------------------------
(* The LLM call and the reading of its answer *)

\* A response text is kept as what extractJsonFromResponse looks at: whether
\* it holds a fenced code block around its braces, and the document between
\* its first "{" and its last "}": none, the object it denotes, one that
\* JSON.parse rejects as it stands and that denotes an object once cleaned
\* up, or one that JSON.parse rejects either way.  prose names the rest of
\* the text.
NoJson  == [t |-> "nojson"]

Garbage == [t |-> "garbage"]

\* an object written with bare keys, single quotes or a comma before a
\* closing bracket: {customer_name: 'JANE',}
Loose(o) == [t |-> "loose", denotes |-> o]

Text(prose, fenced, json) == [t |-> "text", prose |-> prose, fenced |-> fenced, json |-> json]

IsWordChar(c) ==
    \/ IsDigit(c)
    \/ c = "_"
    \/ \E i \in 1..26 : c = UpperLetters[i] \/ c = LowerLetters[i]

\* a string value that the clean-up rewrites into something JSON.parse rejects:
\* .replace(/(\w+):/g, '"$1":') puts quotes inside it, .replace(/'/g, '"') ends it early
CleanBreaksString(w) ==
    \/ \E i \in 1..Len(w) : w[i] = "'"
    \/ \E i \in 2..Len(w) : w[i] = ":" /\ IsWordChar(w[i - 1])

RECURSIVE CleanBreaks(_)
\* the clean-up of lines 350-354 applied to a well-formed document with quoted
\* keys leaves it alone unless one of its strings is rewritten
CleanBreaks(v) ==
    CASE v.t = "str" -> CleanBreaksString(v.str)
      [] v.t = "arr" -> \E i \in 1..Len(v.arr) : CleanBreaks(v.arr[i])
      [] v.t = "obj" -> \E k \in DOMAIN v.obj : CleanBreaks(v.obj[k])
      [] OTHER -> FALSE

\* JSON.parse of a document; Threw for a SyntaxError
JsonParse(doc) == IF doc.t = "obj" THEN doc ELSE Threw

\* the five replacements of lines 350-354 on the brace-delimited substring
CleanUp(doc) ==
    CASE doc.t = "obj" -> IF CleanBreaks(doc) THEN Garbage ELSE doc
      [] doc.t = "loose" -> IF CleanBreaks(doc.denotes) THEN Garbage ELSE doc.denotes
      [] OTHER -> Garbage

\* JSON.parse of the cleaned brace-delimited substring
ParseCleaned(doc) == JsonParse(CleanUp(doc))

OrFallback(parsed) == IF parsed = Threw THEN createCompleteFallbackData ELSE parsed

extractJsonFromResponse(r) ==
    IF r.fenced /\ r.json # NoJson
    THEN OrFallback(JsonParse(r.json))
    ELSE IF r.json # NoJson
         THEN OrFallback(ParseCleaned(r.json))
         ELSE createCompleteFallbackData

\* result.candidates[0]?.content?.parts[0]?.text || "No response from AI"
CandidateText(candidates) ==
    CASE candidates = Undefined -> Threw
      [] candidates = Arr(<<>>) -> Text("No response from AI", FALSE, NoJson)
      [] OTHER -> candidates

\* the try block of callGeminiApi: the text, or Threw with the error's message
FetchText(fetch) ==
    CASE fetch.t = "reject" -> Threw
      [] fetch.t = "status" -> Threw
      [] OTHER -> CandidateText(fetch.candidates)

\* `API call failed: ${error.message}`; the message of a non-OK status ends
\* with the body of the error response
FailureText(fetch) ==
    Text("API call failed", FALSE, IF fetch.t = "status" THEN fetch.body ELSE NoJson)

FetchOrFailure(fetch, got) == IF got = Threw THEN FailureText(fetch) ELSE got

\* callGeminiApi under the environment env: it throws only when the key is
\* not configured
callGeminiApi(env) ==
    IF ~env.key THEN Threw ELSE FetchOrFailure(env.fetch, FetchText(env.fetch))

---------------------------------------------------------------------------
(* extractTransactionsFromText: the two regular expressions, on characters *)

Letters == {UpperLetters[i] : i \in 1..26} \cup {LowerLetters[i] : i \in 1..26}

Digits == {DigitChars[i] : i \in 1..10}

\* \s
Spaces == {" ", "\n", "\t"}

\* [0-9,]
AmountChars == Digits \cup {","}

\* [A-Za-z0-9\s\.\-&]
DescriptionChars == Letters \cup Digits \cup Spaces \cup {".", "-", "&"}

\* the end of the longest run of characters of S that starts at i: the index
\* of the first character from i on that is not in S, Len(T) + 1 if none
RunEnd(T, i, S) ==
    CHOOSE j \in i..(Len(T) + 1) :
        /\ \A k \in i..(j - 1) : T[k] \in S
        /\ j = Len(T) + 1 \/ T[j] \notin S

\* the word w stands at index i of T, letter case ignored (the i flag)
WordAt(T, i, w) ==
    /\ i + Len(w) - 1 <= Len(T)
    /\ \A k \in 1..Len(w) : toLowerCaseChar(T[i + k - 1]) = toLowerCaseChar(w[k])

sYourTransactions == <<"Y","O","U","R"," ","T","R","A","N","S","A","C","T","I","O","N","S">>

sKeyOffers == <<"K","E","Y"," ","O","F","F","E","R","S">>

sPage == <<"P","a","g","e"," ">>

sOf == <<" ","o","f"," ">>

\* Page \d+ of \d+ at index i, with e the end of the first number
PageOfFrom(T, i, e) ==
    /\ e > i + Len(sPage)
    /\ WordAt(T, e, sOf)
    /\ e + Len(sOf) <= Len(T)
    /\ T[e + Len(sOf)] \in Digits

PageOfAt(T, i) ==
    WordAt(T, i, sPage) /\ PageOfFrom(T, i, RunEnd(T, i + Len(sPage), Digits))

\* (?=KEY OFFERS|Page \d+ of \d+|$) at index i
SectionEndsAt(T, i) == i = Len(T) + 1 \/ WordAt(T, i, sKeyOffers) \/ PageOfAt(T, i)

RECURSIVE SectionEnd(_, _)
\* the first index from e on where the section ends
SectionEnd(T, e) == IF SectionEndsAt(T, e) THEN e ELSE SectionEnd(T, e + 1)

\* ([\s\S]*?) : the text from index from up to where the section ends
SectionFrom(T, from) == SubSeq(T, from, SectionEnd(T, from) - 1)

RECURSIVE HeadingFrom(_, _)
\* the index of the first YOUR TRANSACTIONS from i on, 0 when there is none
HeadingFrom(T, i) ==
    IF i > Len(T) THEN 0
    ELSE IF WordAt(T, i, sYourTransactions) THEN i
    ELSE HeadingFrom(T, i + 1)

SectionAfter(T, h) == IF h = 0 THEN <<>> ELSE SectionFrom(T, h + Len(sYourTransactions))

\* transactionSection[1] of the first YOUR TRANSACTIONS heading; the empty
\* string when there is no heading (the if of line 156 treats both alike)
TransactionSection(T) == SectionAfter(T, HeadingFrom(T, 1))

\* \d{2}\/\d{2}\/\d{4} at index i
DateAt(T, i) ==
    /\ i + 9 <= Len(T)
    /\ \A k \in {0, 1, 3, 4, 6, 7, 8, 9} : T[i + k] \in Digits
    /\ T[i + 2] = "/" /\ T[i + 5] = "/"

\* ([A-Za-z0-9\s\.\-&]+?)\s+ followed by [0-9,]: the description T[p..q] can end at q
DescriptionEndsAt(T, p, q) ==
    /\ \A k \in p..q : T[k] \in DescriptionChars
    /\ q + 1 <= Len(T) /\ T[q + 1] \in Spaces
    /\ RunEnd(T, q + 1, Spaces) <= Len(T)
    /\ T[RunEnd(T, q + 1, Spaces)] \in AmountChars

DescriptionFrom(T, p) == \E q \in p..Len(T) : DescriptionEndsAt(T, p, q)

\* the lazy quantifier: the shortest description that starts at p
DescriptionEnd(T, p) ==
    CHOOSE q \in p..Len(T) :
        DescriptionEndsAt(T, p, q) /\ \A k \in p..(q - 1) : ~DescriptionEndsAt(T, p, k)

\* the first \s+ is greedy: it gives back spaces only when no description
\* starts after all of them.  a is the index after the date, b the end of
\* the run of spaces at a.
DescriptionStarts(T, a, b) == {p \in (a + 1)..b : p <= Len(T) /\ DescriptionFrom(T, p)}

NoMatch == [t |-> "nomatch"]

\* the rest of the pattern once the amount starts at s: [0-9,]+ \.? [0-9]* \s* (CR)?
\* e1 is the end of [0-9,]+
AmountEnd(T, e1) ==
    RunEnd(T, IF e1 <= Len(T) /\ T[e1] = "." THEN e1 + 1 ELSE e1, Digits)

CreditAt(T, w) == w + 1 <= Len(T) /\ T[w] = "C" /\ T[w + 1] = "R"

MatchTail(T, i, p, q, s, e, w) ==
    [t |-> "match",
     date |-> SubSeq(T, i, i + 9),
     description |-> SubSeq(T, p, q),
     amountStr |-> SubSeq(T, s, e - 1),
     creditIndicator |-> CreditAt(T, w),
     lastIndex |-> IF CreditAt(T, w) THEN w + 2 ELSE w]

MatchAmount(T, i, p, q, s, e) == MatchTail(T, i, p, q, s, e, RunEnd(T, e, Spaces))

MatchDescription(T, i, p, q, s) ==
    MatchAmount(T, i, p, q, s, AmountEnd(T, RunEnd(T, s, AmountChars)))

MatchFrom(T, i, p, q) == MatchDescription(T, i, p, q, RunEnd(T, q + 1, Spaces))

MatchStarts(T, i, starts) ==
    IF starts = {} THEN NoMatch
    ELSE MatchFrom(T, i, (CHOOSE p \in starts : \A r \in starts : r <= p),
                   DescriptionEnd(T, (CHOOSE p \in starts : \A r \in starts : r <= p)))

\* the match of transactionPattern that starts at index i
MatchAt(T, i) ==
    IF DateAt(T, i)
    THEN MatchStarts(T, i, DescriptionStarts(T, i + 10, RunEnd(T, i + 10, Spaces)))
    ELSE NoMatch

\* amountStr.replace(/,/g, '')
RECURSIVE RemoveCommas(_)
RemoveCommas(w) ==
    IF w = <<>> THEN <<>>
    ELSE (IF Head(w) = "," THEN <<>> ELSE <<Head(w)>>) \o RemoveCommas(Tail(w))

\* parseFloat of digits, an optional point and digits, in hundredths; the
\* texts drawn carry at most two digits after the point
ParseDecimal(intPart, fraction) ==
    IF intPart = <<>> /\ fraction = <<>>
    THEN NaN
    ELSE Num(DecimalValue(intPart, SubSeq(fraction, 1, IF Len(fraction) > 2 THEN 2 ELSE Len(fraction))))

ParseUnsigned(w, p) == ParseDecimal(SubSeq(w, 1, p - 1), SubSeq(w, p + 1, Len(w)))

parseFloat(w) == ParseUnsigned(w, PointIndex(w))

Negate(x) == IF x.t = "nan" THEN NaN ELSE Num(0 - x.num)

\* String.prototype.trim
Trim(w) == TrimRight(TrimLeft(w))

\* the object pushed for a match
TransactionOf(m) ==
    Obj([date |-> Str(Trim(m.date)),
         description |-> Str(Trim(m.description)),
         amount |-> IF m.creditIndicator
                    THEN Negate(parseFloat(RemoveCommas(m.amountStr)))
                    ELSE parseFloat(RemoveCommas(m.amountStr))])

RECURSIVE FirstMatch(_, _)
\* the leftmost match from index i on, NoMatch when there is none
FirstMatch(T, i) ==
    IF i > Len(T) THEN NoMatch
    ELSE IF DateAt(T, i) /\ MatchAt(T, i) # NoMatch THEN MatchAt(T, i)
    ELSE FirstMatch(T, i + 1)

RECURSIVE ExecLoop(_, _)
\* the body of the loop for the match m, then the loop again from its end
ExecBody(T, m) ==
    IF m = NoMatch THEN <<>> ELSE <<TransactionOf(m)>> \o ExecLoop(T, m.lastIndex)

\* while ((match = transactionPattern.exec(transactionText)) !== null)
ExecLoop(T, lastIndex) == ExecBody(T, FirstMatch(T, lastIndex))

extractTransactionsFromText(T) == Arr(ExecLoop(TransactionSection(T), 1))

---------------------------------------------------------------------------
(* extractCustomerInfoFromText: the name and bank patterns, on characters *)

\* [A-Za-z\s\.]
NameChars == Letters \cup Spaces \cup {"."}

sEmail == <<"e","m","a","i","l">>

sCustomerName == <<"C","u","s","t","o","m","e","r"," ","N","a","m","e">>

sCardholder == <<"C","a","r","d","h","o","l","d","e","r">>

sName == <<"N","a","m","e">>

sCreditCard == <<"C","r","e","d","i","t"," ","C","a","r","d">>

\* the largest number of a non-empty finite set of numbers
Largest(S) == CHOOSE x \in S : \A y \in S : y <= x

\* (?!\s*email) at index e
NoEmailAhead(T, e) == ~WordAt(T, RunEnd(T, e, Spaces), sEmail)

\* (?:\n|$) at index e; without the m flag $ is the end of the text
LineEndsAt(T, e) == e = Len(T) + 1 \/ T[e] = "\n"

\* [A-Za-z\s\.]+(?!\s*email)(?:\n|$) : where a capture that starts at s can end
NameEnds(T, s) ==
    {e \in (s + 1)..RunEnd(T, s, NameChars) : LineEndsAt(T, e) /\ NoEmailAhead(T, e)}

\* the + is greedy: the capture that starts at s ends at the last such place
CaptureFrom(T, s, ends) == [capture |-> SubSeq(T, s, Largest(ends) - 1)]

\* the starts between lo and hi from which a capture can be completed
NameStarts(T, lo, hi) == {s \in lo..hi : NameEnds(T, s) # {}}

\* \s* is greedy: it gives back blanks, one at a time, only while no capture
\* can be completed after them
LastStart(T, starts) ==
    IF starts = {} THEN NoMatch
    ELSE CaptureFrom(T, Largest(starts), NameEnds(T, Largest(starts)))

BestIn(T, lo, hi) == LastStart(T, NameStarts(T, lo, hi))

\* [:]? took the colon at b and the capture starts after it, or no capture
\* can be completed there and the capture starts among the blanks before b
NameAfterColon(T, p, b, afterColon) ==
    IF afterColon # NoMatch THEN afterColon ELSE BestIn(T, p, b)

\* \s*[:]?\s*(...) from index p on, b the end of the blanks at p
NameAfterBlanks(T, p, b) ==
    IF b <= Len(T) /\ T[b] = ":"
    THEN NameAfterColon(T, p, b, BestIn(T, b + 1, RunEnd(T, b + 1, Spaces)))
    ELSE BestIn(T, p, b)

\* the match of one of the first three patterns that starts at index i
PrefixMatchAt(T, w, i) ==
    IF WordAt(T, i, w)
    THEN NameAfterBlanks(T, i + Len(w), RunEnd(T, i + Len(w), Spaces))
    ELSE NoMatch

RECURSIVE PrefixMatch(_, _, _)
\* pattern.exec(text): the leftmost match from index i on
PrefixMatch(T, w, i) ==
    IF i > Len(T) THEN NoMatch
    ELSE IF PrefixMatchAt(T, w, i) # NoMatch THEN PrefixMatchAt(T, w, i)
    ELSE PrefixMatch(T, w, i + 1)

\* \n.*?Credit Card at index e: the words on the line that starts after e
CreditCardLineAt(T, e) ==
    /\ e <= Len(T)
    /\ T[e] = "\n"
    /\ \E j \in (e + 1)..Len(T) :
          /\ WordAt(T, j, sCreditCard)
          /\ \A k \in (e + 1)..(j - 1) : T[k] # "\n"

\* where the capture of the fourth pattern can end when it starts at s
HeadingEnds(T, s) ==
    {e \in (s + 1)..RunEnd(T, s, NameChars) : NoEmailAhead(T, e) /\ CreditCardLineAt(T, e)}

\* ^ with the m flag: the start of a line
LineStartsAt(T, i) == i = 1 \/ T[i - 1] = "\n"

\* the match of the fourth pattern that starts at index i
HeadingMatchAt(T, i) ==
    IF LineStartsAt(T, i) /\ HeadingEnds(T, i) # {}
    THEN CaptureFrom(T, i, HeadingEnds(T, i))
    ELSE NoMatch

RECURSIVE HeadingMatch(_, _)
HeadingMatch(T, i) ==
    IF i > Len(T) THEN NoMatch
    ELSE IF HeadingMatchAt(T, i) # NoMatch THEN HeadingMatchAt(T, i)
    ELSE HeadingMatch(T, i + 1)

\* for (const pattern of namePatterns) { ... break }: the first pattern that matches
FirstOf(m1, m2, m3, m4) ==
    IF m1 # NoMatch THEN m1
    ELSE IF m2 # NoMatch THEN m2
    ELSE IF m3 # NoMatch THEN m3
    ELSE m4

NameMatch(T) ==
    FirstOf(PrefixMatch(T, sCustomerName, 1), PrefixMatch(T, sCardholder, 1),
            PrefixMatch(T, sName, 1), HeadingMatch(T, 1))

RECURSIVE TrimStart(_)
TrimStart(s) == IF s # <<>> /\ s[1] \in Spaces THEN TrimStart(Tail(s)) ELSE s

RECURSIVE TrimEnd(_)
TrimEnd(s) ==
    IF s # <<>> /\ s[Len(s)] \in Spaces THEN TrimEnd(SubSeq(s, 1, Len(s) - 1)) ELSE s

\* String.prototype.trim on a text with line feeds and tabs
TrimBlanks(s) == TrimEnd(TrimStart(s))

\* name.replace(/\s*email\s*$/i, '') on a trimmed name: the word at the end
\* of the name goes, with the blanks before it
StripEmail(name) ==
    IF Len(name) >= 5 /\ WordAt(name, Len(name) - 4, sEmail)
    THEN TrimEnd(SubSeq(name, 1, Len(name) - 5))
    ELSE name

\* let name = match[1].trim(); name = name.replace(...).trim()
CustomerName(m) ==
    IF m = NoMatch THEN Null ELSE Str(TrimBlanks(StripEmail(TrimBlanks(m.capture))))

BankNames ==
    { <<"H","D","F","C"," ","B","a","n","k">>, <<"I","C","I","C","I"," ","B","a","n","k">>,
      <<"A","x","i","s"," ","B","a","n","k">>,
      <<"I","D","F","C"," ","F","I","R","S","T"," ","B","a","n","k">>,
      <<"R","B","L"," ","B","a","n","k">>, <<"S","B","I"," ","C","a","r","d">>,
      <<"K","o","t","a","k"," ","B","a","n","k">>,
      <<"S","t","a","n","d","a","r","d"," ","C","h","a","r","t","e","r","e","d">> }

sBankLimited == <<" ","B","a","n","k"," ","L","i","m","i","t","e","d">>

sCardServices == <<" ","C","a","r","d"," ","S","e","r","v","i","c","e","s">>

\* one of the eight bank names stands at index i: the text it covers
KnownBankAt(T, i) ==
    IF \E w \in BankNames : WordAt(T, i, w)
    THEN [capture |-> SubSeq(T, i, i + Len(CHOOSE w \in BankNames : WordAt(T, i, w)) - 1)]
    ELSE NoMatch

\* [A-Za-z]+ followed by the words w, at index i; e is the end of the letters
SuffixedAt(T, i, e, w) ==
    IF e > i /\ WordAt(T, e, w) THEN [capture |-> SubSeq(T, i, e + Len(w) - 1)] ELSE NoMatch

\* the match of the bank pattern k that starts at index i
BankMatchAt(T, k, i) ==
    IF k = 1 THEN KnownBankAt(T, i)
    ELSE IF k = 2 THEN SuffixedAt(T, i, RunEnd(T, i, Letters), sBankLimited)
    ELSE SuffixedAt(T, i, RunEnd(T, i, Letters), sCardServices)

RECURSIVE BankMatch(_, _, _)
BankMatch(T, k, i) ==
    IF i > Len(T) THEN NoMatch
    ELSE IF BankMatchAt(T, k, i) # NoMatch THEN BankMatchAt(T, k, i)
    ELSE BankMatch(T, k, i + 1)

\* for (const pattern of bankPatterns) { ... break }
BankName(m) == IF m = NoMatch THEN Null ELSE Str(TrimBlanks(m.capture))

extractCustomerInfoFromText(T) ==
    Obj([customer_name |-> CustomerName(NameMatch(T)),
         bank_name |-> BankName(FirstOf(BankMatch(T, 1, 1), BankMatch(T, 2, 1),
                                        BankMatch(T, 3, 1), NoMatch))])

---------------------------------------------------------------------------
(* The session store and the request handlers *)

\* A statement text is kept as the name of the file it was made from and the
\* record that the six extractors of lines 466-480 read from it.  processPDF
\* returns a fixed text around file.name, so the text is never empty.
StatementText(name, found) == [t |-> "text", name |-> name, found |-> found]

processPDF(file) ==
    [text |-> StatementText(file.name, file.found), tables |-> <<>>, imagesCount |-> 0]

\* const patternMatchedData = { ...customerInfo, ...datesInfo, ... }
patternMatchedData(extractedText) == extractedText.found

\* the object stored for a processed file (pages repeats text and tables,
\* processed_at is a time stamp: both are left out)
StoredContent(processed, file) ==
    [text |-> processed.text,
     tables |-> processed.tables,
     images_count |-> processed.imagesCount,
     filename |-> file.name,
     extracted_10_data |-> Absent]

\* the property names every plain object inherits from Object.prototype
PrototypeKeys == {"constructor"}

\* the value of such a property: truthy, without text and extracted_10_data
Inherited == [t |-> "inherited"]

\* extractedContents[session_id]
Lookup(store, session_id) ==
    IF session_id \in DOMAIN store THEN store[session_id]
    ELSE IF session_id \in PrototypeKeys THEN Inherited
    ELSE Undefined

\* storedContent.text
TextOf(storedContent) == IF storedContent = Inherited THEN Undefined ELSE storedContent.text

\* pdfContent.extracted_10_data || {}
Extracted10OrEmpty(pdfContent) ==
    IF pdfContent = Inherited \/ pdfContent.extracted_10_data = Absent
    THEN EmptyObj
    ELSE pdfContent.extracted_10_data

\* extractedContents[sessionId] = { ... }
StoreContent(store, sessionId, content) ==
    [k \in (DOMAIN store) \cup {sessionId} |-> IF k = sessionId THEN content ELSE store[k]]

\* mutant: the record is attached to every session
AttachRecordToAll(store, session_id, extracted10Data) ==
    [k \in DOMAIN store |-> [store[k] EXCEPT !.extracted_10_data = extracted10Data]]

\* extractedContents[session_id].extracted_10_data = extracted10Data
AttachRecord(store, session_id, extracted10Data) ==
    [k \in DOMAIN store |->
        IF k = session_id THEN [store[k] EXCEPT !.extracted_10_data = extracted10Data]
        ELSE store[k]]

\* mutant: the merged record is returned as it is
ReturnMerged(merged) == merged

\* return finalValidationAndCalculation(mergedData)
ReturnFinal(merged) == finalValidationAndCalculation(merged)

\* the try block of extract10DataPointsWithGemini after the call, or its catch block
MergedOrCatch(merged, pattern) ==
    IF merged = Threw
    THEN finalValidationAndCalculation(fallbackFromPattern(pattern))
    ELSE ReturnFinal(merged)

\* what extract10DataPointsWithGemini returns for the pattern record and the
\* outcome of callGeminiApi
extract10DataPoints(pattern, answer) ==
    IF answer = Threw
    THEN finalValidationAndCalculation(fallbackFromPattern(pattern))
    ELSE MergedOrCatch(robustDataMerging(extractJsonFromResponse(answer), pattern).merged, pattern)

\* a parameter of a request that is not given: no action in the URL, no
\* session_id in the body
Missing == "(missing)"

\* NextResponse.json(body, { status })
Reply(status, body) == [status |-> status, body |-> body]

\* mutant: a request without action goes to the general chat
DispatchToChat(action) ==
    CASE action = Missing -> "handleGeneralChat"
      [] action = "ocr" -> "handleOCR"
      [] action = "ocr10" -> "handleOCR10"
      [] action = "chatwithpdf" -> "handleChatWithPDF"
      [] action = "chat" -> "handleGeneralChat"
      [] OTHER -> "none"

\* the handler POST gives the request to; "none" for the two 400 answers
Dispatch(action) ==
    CASE action = Missing -> "none"
      [] action = "ocr" -> "handleOCR"
      [] action = "ocr10" -> "handleOCR10"
      [] action = "chatwithpdf" -> "handleChatWithPDF"
      [] action = "chat" -> "handleGeneralChat"
      [] OTHER -> "none"

\* a request as the handlers see it: the action parameter, the file of the
\* form, the session_id of the JSON body; pc is "llm" while the handler waits
\* for callGeminiApi and "done" once it has answered
Request(action, file, session_id) ==
    [action |-> action, file |-> file, session_id |-> session_id,
     handler |-> Dispatch(action), pc |-> "done", extractedText |-> NoRecord]

\* const { question, session_id = "default" } = body
SessionOrDefault(session_id) == IF session_id = Missing THEN "default" ELSE session_id

---------------------------------------------------------------------------
(* Bounded inputs *)

\* longest transaction list drawn for either argument
MaxTx == 2

\* largest number probed by a direct isValidData call
MaxProbe == 2

sNA      == <<"N","/","A">>
sJohn    == <<"J","o","h","n"," ","D","o","e">>
sJane    == <<"J","A","N","E">>
sBank    == <<"H","D","F","C"," ","B","a","n","k">>
sAxis    == <<"A","x","i","s">>
sCard    == <<"4","2","8","1","*","*","*","*","9","3","8","8">>
sCardAi  == <<"4","2","8","1">>
sDate1   == <<"1","2","/","0","4","/","2","0","2","4">>
sDate2   == <<"0","1","/","0","5","/","2","0","2","4">>
sNone    == <<"n","o","n","e">>
sAmazon  == <<"A","M","A","Z","O","N">>
sRefund  == <<"R","E","F","U","N","D">>

\* the object with the keys of choice whose value is not Absent
ObjOf(choice) == Obj([k \in {x \in DOMAIN choice : choice[x] # Absent} |-> choice[k]])

\* base with the keys of choice overwritten, or removed where the choice is Absent
Override(base, choice) ==
    Obj([k \in ((DOMAIN base.obj) \ {x \in DOMAIN choice : choice[x] = Absent})
               \cup {x \in DOMAIN choice : choice[x] # Absent} |->
           IF k \in DOMAIN choice THEN choice[k] ELSE base.obj[k]])

Row(d, desc, amt) == Obj([date |-> Str(d), description |-> Str(desc), amount |-> amt])

TxRows == {Row(sDate1, sAmazon, Num(149900)), Row(sDate2, sRefund, Num(0 - 50000))}

TxLists == UNION {[1..n -> TxRows] : n \in 0..MaxTx}

\* what JSON.parse can deliver for a field of the LLM answer
AiText(s)  == {Absent, Null, Str(sNA), Str(s)}
AiAmount(S) == {Absent, Null, Str(sNA)} \cup {Num(n) : n \in S}
AiTransactions == {Absent, Null, Str(sNA), Str(sNone)} \cup {Arr(l) : l \in TxLists}

AiRewardObjects ==
    {ObjOf(c) : c \in
       [opening_balance : {Absent, Null, Num(0), Num(10000), Str(sNA), Str(<<"1","0","0">>)},
        earned          : {Absent, Null, Num(0), Num(5000), Str(sNA)},
        closing_balance : {Absent, Null, Num(0), Num(12000)}]}

AiRewards == {Absent, Null, Str(sNA), Str(sNone)} \cup AiRewardObjects

\* what the pattern extractors can deliver
PatternRewards ==
    {Obj([k \in RewardKeys |-> Null])} \cup
    {Obj(c) : c \in [opening_balance : {Num(0), Num(20000)},
                     earned          : {Num(0), Num(3000)},
                     closing_balance : {Num(0), Num(23000)}]}

\* extractFinancialDataFromText: a key is absent unless its label matched;
\* available_credit_limit is computed when the two others matched and it did not.
PatternFinancial ==
    {c \in [total_amount_due       : {Absent, Num(0), Num(120000)},
            minimum_amount_due     : {Absent, Num(0), Num(6000)},
            credit_limit           : {Absent, Num(5000000), NaN},
            available_credit_limit : {Absent, Num(0), Num(4880000), NaN}] :
        (c.credit_limit # Absent /\ c.total_amount_due # Absent) => c.available_credit_limit # Absent}

\* the pattern record of a text in which no extractor found anything
PatternNothing ==
    Obj([f \in Fields \ {"total_amount_due", "minimum_amount_due", "credit_limit",
                         "available_credit_limit"} |->
           CASE f = "transactions" -> Arr(<<>>)
             [] f = "reward_points_summary" -> Obj([k \in RewardKeys |-> Null])
             [] OTHER -> Null])

AiBackgrounds == {EmptyObj, createCompleteFallbackData}

\* One group of fields varies over its domain, the others keep the background:
\* robustDataMerging treats every field on its own and
\* finalValidationAndCalculation relates fields only inside the financial
\* group and inside reward_points_summary.
IdentityInputs ==
    {[ai |-> a, pattern |-> q] :
       a \in [customer_name : AiText(sJane), card_number : AiText(sCardAi), bank_name : AiText(sAxis)],
       q \in [customer_name : {Null, Str(<<>>), Str(<<"N","A">>), Str(sJohn)},
              card_number   : {Null, Str(sCard)},
              bank_name     : {Null, Str(sBank)}]}

TransactionInputs ==
    {[ai |-> a, pattern |-> q] :
       a \in [transactions : AiTransactions],
       q \in [transactions : {Arr(l) : l \in TxLists}]}

AiFinancial ==
    [total_amount_due       : AiAmount({0, 70, 200000}) \cup {Str(<<"2","0","0","0">>)},
     minimum_amount_due     : AiAmount({0, 5000}),
     credit_limit           : AiAmount({0, 5000000}) \cup {Str(<<"5","0",",","0","0","0">>)},
     available_credit_limit : AiAmount({0, 123400})]

\* every LLM quadruple against a text without amounts; every LLM value of one
\* field against every pattern value of that field; a few LLM quadruples
\* against every pattern quadruple
FinancialInputs ==
    {[ai |-> a, pattern |-> <<>>] : a \in AiFinancial}
    \cup
    {[ai |-> (f :> a[f]), pattern |-> (f :> q[f])] :
       f \in {"total_amount_due", "minimum_amount_due", "credit_limit", "available_credit_limit"},
       a \in AiFinancial,
       q \in {c \in PatternFinancial : c.total_amount_due = Absent \/ c.credit_limit = Absent}}
    \cup
    {[ai |-> a, pattern |-> q] :
       a \in [total_amount_due       : {Null, Num(0), Num(200000)},
              minimum_amount_due     : {Null},
              credit_limit           : {Null, Num(5000000)},
              available_credit_limit : {Absent, Num(0)}],
       q \in PatternFinancial}

DateInputs ==
    {[ai |-> a, pattern |-> q] :
       a \in [statement_date : AiText(sDate1), payment_due_date : AiText(sDate2)],
       q \in [statement_date : {Null, Str(sDate2)}, payment_due_date : {Null, Str(sDate1)}]}

RewardInputs ==
    {[ai |-> a, pattern |-> q] :
       a \in [reward_points_summary : AiRewards],
       q \in [reward_points_summary : PatternRewards]}

Inputs == IdentityInputs \cup TransactionInputs \cup FinancialInputs \cup DateInputs \cup RewardInputs

\* records given to finalValidationAndCalculation directly: derived values
\* that come out unusable (NaN, "n/a", "null") or as 0, a reward summary that
\* is no object, keys beyond the eleven
FinalizeProbes ==
    {Override(bg, c) : bg \in AiBackgrounds, c \in
       {[total_amount_due |-> Str(<<"a","b","c">>)],
        [total_amount_due |-> Num(0)],
        [total_amount_due |-> Num(70)],
        [total_amount_due |-> Bool(TRUE), credit_limit |-> Bool(TRUE)],
        [credit_limit |-> Str(<<"5","0",",","0","0","0">>), total_amount_due |-> Num(200000)],
        [credit_limit |-> Num(200000), total_amount_due |-> Num(200000)],
        [reward_points_summary |-> Obj([opening_balance |-> Str(<<"n">>), earned |-> Str(<<"/","a">>)])],
        [reward_points_summary |-> Obj([opening_balance |-> Str(<<"n","u">>), earned |-> Str(<<"l","l">>)])],
        [reward_points_summary |-> Obj([opening_balance |-> Num(10000), earned |-> Str(<<"5","0">>)])],
        [reward_points_summary |-> Obj([opening_balance |-> Num(0), earned |-> Num(0), bonus |-> Num(100)])],
        [reward_points_summary |-> Str(sNone)],
        [reward_points_summary |-> Arr(<<Num(100)>>)],
        [transactions |-> Str(sNone), extra |-> Num(100)]}}

\* the body of a non-OK answer of the API: {"error": {"code": 400, "message": "bad"}}
ErrorBody == Obj([error |-> Obj([code |-> Num(40000), message |-> Str(<<"b","a","d">>)])])

sDSouza == <<"D","'","S","o","u","z","a">>

\* the environments in which the LLM call fails: no key configured, the fetch
\* rejects (network error, timeout), the API answers with a non-OK status
LlmFailures ==
    {[key |-> FALSE, fetch |-> [t |-> "reject"]]} \cup
    {[key |-> TRUE, fetch |-> f] :
       f \in {[t |-> "reject"]} \cup {[t |-> "status", body |-> b] : b \in {NoJson, Garbage, ErrorBody}}}

\* objects an answer of the LLM can denote
AnswerObjects ==
    {Obj([customer_name |-> Str(sJane), total_amount_due |-> Num(200000)]),
     Obj([customer_name |-> Str(sDSouza), total_amount_due |-> Num(200000)]),
     Obj([data |-> Obj([customer_name |-> Str(sJane)])]),
     createCompleteFallbackData}

\* the environments in which the API answers with status OK
LlmAnswers ==
    {[key |-> TRUE, fetch |-> [t |-> "ok", candidates |-> c]] :
       c \in {Undefined, Arr(<<>>), Text("prose", FALSE, NoJson), Text("prose", TRUE, Garbage),
              Text("prose", FALSE, Garbage)}
             \cup {Text("prose", fenced, o) : fenced \in BOOLEAN, o \in AnswerObjects}
             \cup {Text("prose", fenced, Loose(o)) : fenced \in BOOLEAN, o \in AnswerObjects}}

LlmOutcomes == LlmFailures \cup LlmAnswers

\* the pattern records of the texts of Inputs
CallPatterns == {Override(PatternNothing, i.pattern) : i \in Inputs}

\* most lines drawn below the heading of a text
MaxLines == 2

sAmazonRetail == <<"A","M","A","Z","O","N"," ","R","E","T","A","I","L">>

sStore24 == <<"S","T","O","R","E"," ","2","4"," ","M","A","R","T">>

sAmount1 == <<"1","4","9","9",".","0","0">>

sAmount2 == <<"1",",","4","9","9",".","0","0">>

sComma == <<",">>

sCreditSummary == <<"C","R","E","D","I","T"," ","S","U","M","M","A","R","Y">>

sPageOneOfTwo == <<"P","a","g","e"," ","1"," ","o","f"," ","2">>

\* date description amount, with " CR" after it when credit
TransactionLine(d, desc, amt, credit) ==
    d \o <<" ">> \o desc \o <<" ">> \o amt \o (IF credit THEN <<" ","C","R">> ELSE <<>>)

TransactionLines ==
    {TransactionLine(sDate1, sAmazonRetail, amt, credit) :
       amt \in {sAmount1, sAmount2, sComma}, credit \in BOOLEAN}
    \cup {TransactionLine(sDate2, sStore24, sAmount1, FALSE),
          TransactionLine(sDate2, sRefund, sAmount2, TRUE)}

TextLines == TransactionLines \cup {sCreditSummary, sKeyOffers, sPageOneOfTwo}

RECURSIVE JoinLines(_)
\* the lines, each followed by a line feed
JoinLines(ls) == IF ls = <<>> THEN <<>> ELSE Head(ls) \o <<"\n">> \o JoinLines(Tail(ls))

\* statement texts: the heading and up to MaxLines lines, and texts without heading
Texts ==
    {JoinLines(<<sYourTransactions>> \o ls) : ls \in UNION {[1..n -> TextLines] : n \in 0..MaxLines}}
    \cup {JoinLines(<<l>>) : l \in TextLines}

\* most lines of a text given to extractCustomerInfoFromText
MaxInfoLines == 2

sEmailAddress == <<"E","m","a","i","l"," ","A","d","d","r","e","s","s">>

sEmailColon == <<"E","m","a","i","l",":"," ","j","@","x",".","i","n">>

sPhone == <<"P","h","o","n","e",":"," ","1","2">>

sAxisCardServices == <<"A","x","i","s"," ","C","a","r","d"," ","S","e","r","v","i","c","e","s">>

InfoLines ==
    { sCustomerName \o <<":"," ">> \o sJohn,
      sCustomerName \o <<":"," ">> \o sJohn \o <<" ">> \o sEmail,
      sCustomerName \o <<":">>,
      sCardholder \o <<" ">> \o sJane,
      sJohn,
      sBank \o <<" ">> \o sCreditCard,
      sAxisCardServices,
      sEmailAddress, sEmailColon, sPhone }

\* texts of up to MaxInfoLines lines
CustomerTexts == {JoinLines(ls) : ls \in UNION {[1..n -> InfoLines] : n \in 0..MaxInfoLines}}

\* the files of the sessions an ocr10 request is followed through: one for
\* every pattern record drawn
Ocr10Files == {[name |-> "statement.pdf", found |-> p] : p \in CallPatterns}

\* most requests the server receives in a run
MaxRequests == 3

\* uploaded files: in the text made from the first the extractors find
\* nothing, in the one made from the second a bank name and a total amount
\* due of 0
Files ==
    {[name |-> "statement.pdf", found |-> PatternNothing],
     [name |-> "HDFC Bank Total Due 0.pdf",
      found |-> Override(PatternNothing, [bank_name |-> Str(sBank), total_amount_due |-> Num(0)])]}

\* what Math.random().toString(36).substring(2) + Date.now().toString(36) can give
SessionIds == {"s1", "s2"}

\* the session_id of a JSON body
RequestedSessions == {Missing, "zz"} \cup SessionIds \cup PrototypeKeys

\* the action parameter of the URL
Actions == {Missing, "bogus", "ocr", "ocr10", "chatwithpdf", "chat"}

\* what the fetch of an extraction call can do
ExtractionFetches ==
    {[t |-> "reject"]} \cup
    {[t |-> "ok", candidates |-> c] :
       c \in {Text("prose", FALSE, NoJson),
              Text("prose", TRUE, Obj([customer_name |-> Str(sJane), total_amount_due |-> Num(200000)])),
              Text("prose", TRUE, Obj([data |-> Obj([customer_name |-> Str(sJane)])]))}}

\* what the fetch of a chat call can do
ChatFetches == {[t |-> "reject"], [t |-> "ok", candidates |-> Text("answer", FALSE, NoJson)]}

\* arguments of the direct isValidData calls
ProbeStrings ==
    { <<>>, <<"n","u","l","l">>, <<"N","U","L","L">>, <<"N","u","l","l">>,
      <<"n","a">>, <<"N","A">>, <<"N","a">>, <<"n","/","a">>, sNA, <<"n","/","A">>,
      <<"u","n","d","e","f","i","n","e","d">>, <<"U","n","d","e","f","i","n","e","d">>,
      <<" ">>, <<" ","n","/","a">>, <<"n","a","n">>, <<"n",".","a">>, <<"n","o","n","e">>,
      <<"n","u","l","l","s">>, <<"0">>, <<"-">>, sJohn, sCard }

ProbeElements == {Null, Undefined, NaN, Num(0), Str(<<>>), Arr(<<>>), EmptyObj}

ProbeValues ==
    {Null, Undefined, NaN, Bool(TRUE), Bool(FALSE)}
    \cup {Num(n) : n \in (0 - MaxProbe)..MaxProbe}
    \cup {Str(w) : w \in ProbeStrings}
    \cup {Arr(l) : l \in UNION {[1..n -> ProbeElements] : n \in 0..1}}
    \cup {Obj(f) : f \in UNION {[K -> ProbeElements] : K \in SUBSET {"a"}}}

---------------------------------------------------------------------------
(* The state machine *)

IdleCall == llm = NoRecord /\ response = NoRecord

IdleExtract == text = <<>> /\ transactions = NoRecord /\ customerData = NoRecord

IdleServer ==
    /\ extractedContents = <<>>
    /\ requests = <<>>
    /\ replies = <<>>
    /\ llmCalls = 0
    /\ read = NoRecord

IdleClient ==
    /\ assistant = NoRecord
    /\ timers = <<>>
    /\ home = NoRecord
    /\ awaiting = NoRecord

IdlePipeline ==
    /\ aiData = NoRecord
    /\ aiBefore = NoRecord
    /\ patternData = NoRecord
    /\ mergedData = NoRecord
    /\ data = NoRecord
    /\ finalData = NoRecord
    /\ value = Null
    /\ result = FALSE

InitReconcile ==
    /\ IdleClient
    /\ IdleCall /\ IdleExtract /\ IdleServer
    /\ \E i \in Inputs, bg \in AiBackgrounds :
          /\ aiData = Override(bg, i.ai)
          /\ patternData = Override(PatternNothing, i.pattern)
    /\ aiBefore = aiData
    /\ pc = "start"
    /\ mergedData = NoRecord
    /\ data = NoRecord
    /\ finalData = NoRecord
    /\ value = Null
    /\ result = FALSE

\* extract10DataPointsWithGemini at its LLM call, the pattern record built
InitCall ==
    /\ IdleClient
    /\ IdleExtract /\ IdleServer
    /\ llm \in LlmOutcomes
    /\ response = NoRecord
    /\ patternData \in CallPatterns
    /\ pc = "call"
    /\ aiData = NoRecord
    /\ aiBefore = NoRecord
    /\ mergedData = NoRecord
    /\ data = NoRecord
    /\ finalData = NoRecord
    /\ value = Null
    /\ result = FALSE

\* a direct call extractTransactionsFromText(text)
InitExtract ==
    /\ IdleClient
    /\ IdleCall /\ IdleServer /\ IdlePipeline
    /\ text \in Texts
    /\ transactions = NoRecord
    /\ customerData = NoRecord
    /\ pc = "extract"

\* a direct call extractCustomerInfoFromText(text)
InitCustomer ==
    /\ IdleClient
    /\ IdleCall /\ IdleServer /\ IdlePipeline
    /\ text \in CustomerTexts
    /\ transactions = NoRecord
    /\ customerData = NoRecord
    /\ pc = "customer"

InitProbe ==
    /\ IdleClient
    /\ IdleCall /\ IdleExtract /\ IdleServer
    /\ value \in ProbeValues
    /\ result = FALSE
    /\ pc = "probe"
    /\ aiData = EmptyObj
    /\ aiBefore = EmptyObj
    /\ patternData = PatternNothing
    /\ mergedData = NoRecord
    /\ data = NoRecord
    /\ finalData = NoRecord

\* a direct call finalValidationAndCalculation(mergedData)
InitFinalize ==
    /\ IdleClient
    /\ IdleCall /\ IdleExtract /\ IdleServer
    /\ mergedData \in FinalizeProbes
    /\ pc = "finalize"
    /\ aiData = NoRecord
    /\ aiBefore = NoRecord
    /\ patternData = NoRecord
    /\ data = NoRecord
    /\ finalData = NoRecord
    /\ value = Null
    /\ result = FALSE

Init == InitReconcile \/ InitCall \/ InitExtract \/ InitProbe \/ InitCustomer \/ InitFinalize

\* the server after start: an empty session store, the key configured or not
InitServer ==
    /\ IdleClient
    /\ IdlePipeline /\ IdleExtract
    /\ pc = "serve"
    /\ llm \in {[key |-> k] : k \in BOOLEAN}
    /\ response = NoRecord
    /\ extractedContents = <<>>
    /\ requests = <<>>
    /\ replies = <<>>
    /\ llmCalls = 0
    /\ read = NoRecord

\* const response = await callGeminiApi(prompt)
CallGeminiApi ==
    /\ pc = "call"
    /\ response' = callGeminiApi(llm)
    /\ pc' = IF response' = Threw THEN "catch" ELSE "respond"
    /\ UNCHANGED <<aiData, aiBefore, patternData, mergedData, data, finalData, value, result>>
    /\ UNCHANGED <<llm, extractVars, serverVars>>
    /\ UNCHANGED clientVars

\* const extractedData = extractJsonFromResponse(response)
ExtractJsonFromResponse ==
    /\ pc = "respond"
    /\ aiData' = extractJsonFromResponse(response)
    /\ aiBefore' = aiData'
    /\ pc' = "start"
    /\ UNCHANGED <<patternData, mergedData, data, finalData, value, result>>
    /\ UNCHANGED <<callVars, extractVars, serverVars>>
    /\ UNCHANGED clientVars

\* mutant: the try block returns the merged record without finalizing it
AfterMergeReturns(merged) == IF merged = Threw THEN "catch" ELSE "final"

\* where extract10DataPointsWithGemini goes on after robustDataMerging: to
\* its return statement, or to its catch block when the merge threw
AfterMerge(merged) == IF merged = Threw THEN "catch" ELSE "merged"

\* const mergedData = robustDataMerging(extractedData, patternMatchedData)
RobustDataMerging ==
    /\ pc = "start"
    /\ \E r \in {robustDataMerging(aiData, patternData)} :
           /\ mergedData' = r.merged
           /\ aiData' = r.ai
           /\ pc' = AfterMerge(r.merged)
    /\ UNCHANGED <<aiBefore, patternData, data, finalData, value, result>>
    /\ UNCHANGED <<callVars, extractVars, serverVars>>
    /\ UNCHANGED clientVars

\* return finalValidationAndCalculation(mergedData)
FinalValidationAndCalculation ==
    /\ pc = "merged"
    /\ data' = mergedData
    /\ finalData' = finalValidationAndCalculation(mergedData)
    /\ pc' = "final"
    /\ UNCHANGED <<aiData, aiBefore, patternData, mergedData, value, result>>
    /\ UNCHANGED <<callVars, extractVars, serverVars>>
    /\ UNCHANGED clientVars

\* the direct call returns
FinalValidationAndCalculationCall ==
    /\ pc = "finalize"
    /\ data' = mergedData
    /\ finalData' = finalValidationAndCalculation(mergedData)
    /\ pc' = "finalized"
    /\ UNCHANGED <<aiData, aiBefore, patternData, mergedData, value, result>>
    /\ UNCHANGED <<callVars, extractVars, serverVars>>
    /\ UNCHANGED clientVars

\* catch (error) { ... return finalValidationAndCalculation(fallbackData) }
CatchFallback ==
    /\ pc = "catch"
    /\ data' = fallbackFromPattern(patternData)
    /\ finalData' = finalValidationAndCalculation(data')
    /\ pc' = "final"
    /\ UNCHANGED <<aiData, aiBefore, patternData, mergedData, value, result>>
    /\ UNCHANGED <<callVars, extractVars, serverVars>>
    /\ UNCHANGED clientVars

\* a direct call isValidData(value)
IsValidDataCall ==
    /\ pc = "probe"
    /\ result' = isValidData(value)
    /\ pc' = "probed"
    /\ UNCHANGED <<aiData, aiBefore, patternData, mergedData, data, finalData, value>>
    /\ UNCHANGED <<callVars, extractVars, serverVars>>
    /\ UNCHANGED clientVars

\* const transactions = extractTransactionsFromText(extractedText)
ExtractTransactionsFromText ==
    /\ pc = "extract"
    /\ transactions' = extractTransactionsFromText(text)
    /\ pc' = "extracted"
    /\ UNCHANGED <<aiData, aiBefore, patternData, mergedData, data, finalData, value, result>>
    /\ UNCHANGED <<callVars, text, customerData, serverVars>>
    /\ UNCHANGED clientVars

\* const customerInfo = extractCustomerInfoFromText(extractedText)
ExtractCustomerInfoFromText ==
    /\ pc = "customer"
    /\ customerData' = extractCustomerInfoFromText(text)
    /\ pc' = "customer-done"
    /\ UNCHANGED <<aiData, aiBefore, patternData, mergedData, data, finalData, value, result>>
    /\ UNCHANGED <<callVars, text, transactions, serverVars>>
    /\ UNCHANGED clientVars

pipelineVars == <<pc, aiData, aiBefore, patternData, mergedData, data, finalData, value, result>>

\* the request arrives and its handler runs up to its first answer or LLM call
Arrive(request, reply) ==
    /\ pc = "serve"
    /\ Len(requests) < MaxRequests
    /\ requests' = Append(requests, request)
    /\ replies' = Append(replies, reply)

\* the handler of request r answers
Answer(r, reply) ==
    /\ requests' = [requests EXCEPT ![r].pc = "done"]
    /\ replies' = [replies EXCEPT ![r] = reply]

\* POST without action, or with an action that is none of the four
PostWithoutHandler ==
    /\ \E action \in Actions :
          /\ Dispatch(action) = "none"
          /\ Arrive(Request(action, Absent, Missing), Reply(400, [error |-> "action"]))
    /\ UNCHANGED <<pipelineVars, callVars, extractVars, extractedContents, llmCalls, read>>
    /\ UNCHANGED clientVars

\* handleOCR: no await of another service lies between the check and the store
HandleOCR ==
    /\ \E action \in Actions, file \in {Absent} \cup Files, sessionId \in SessionIds :
          /\ Dispatch(action) = "handleOCR"
          /\ IF file = Absent
             THEN /\ Arrive(Request(action, file, Missing),
                            Reply(400, [success |-> FALSE, session_id |-> ""]))
                  /\ UNCHANGED extractedContents
             ELSE /\ Arrive(Request(action, file, Missing),
                            Reply(200, [success |-> TRUE, session_id |-> sessionId]))
                  /\ extractedContents' =
                         StoreContent(extractedContents, sessionId,
                                      StoredContent(processPDF(file), file))
    /\ UNCHANGED <<pipelineVars, callVars, extractVars, llmCalls, read>>
    /\ UNCHANGED clientVars

\* lines 780-790 for request r once extract10DataPointsWithGemini has returned
OCR10Done(session_id, extracted10Data) ==
    /\ extractedContents' = AttachRecord(extractedContents, session_id, extracted10Data)
    /\ replies' = Append(replies,
                         Reply(200, [success |-> TRUE, session_id |-> session_id,
                                     extracted_data |-> extracted10Data]))

\* handleOCR10 up to the LLM call of extract10DataPointsWithGemini; without a
\* key callGeminiApi throws at once and the handler runs to its end
HandleOCR10 ==
    /\ pc = "serve"
    /\ Len(requests) < MaxRequests
    /\ \E action \in Actions, session_id \in RequestedSessions :
          /\ Dispatch(action) = "handleOCR10"
          /\ \E storedContent \in {IF session_id = Missing THEN Undefined
                                   ELSE Lookup(extractedContents, session_id)} :
                CASE session_id = Missing ->
                       /\ requests' = Append(requests, Request(action, Absent, session_id))
                       /\ replies' = Append(replies, Reply(400, [error |-> "session_id is required"]))
                       /\ UNCHANGED <<extractedContents, llmCalls>>
                  [] session_id # Missing /\ storedContent = Undefined ->
                       /\ requests' = Append(requests, Request(action, Absent, session_id))
                       /\ replies' = Append(replies, Reply(404, [error |-> "Session not found"]))
                       /\ UNCHANGED <<extractedContents, llmCalls>>
                  [] session_id # Missing /\ storedContent # Undefined
                       /\ TextOf(storedContent) = Undefined ->
                       /\ requests' = Append(requests, Request(action, Absent, session_id))
                       /\ replies' = Append(replies, Reply(400, [error |-> "No text found"]))
                       /\ UNCHANGED <<extractedContents, llmCalls>>
                  [] OTHER ->
                       /\ llmCalls' = llmCalls + 1
                       /\ IF llm.key
                          THEN /\ requests' = Append(requests,
                                      [Request(action, Absent, session_id) EXCEPT
                                          !.pc = "llm", !.extractedText = TextOf(storedContent)])
                               /\ replies' = Append(replies, NoRecord)
                               /\ UNCHANGED extractedContents
                          ELSE /\ requests' = Append(requests,
                                      [Request(action, Absent, session_id) EXCEPT
                                          !.extractedText = TextOf(storedContent)])
                               /\ OCR10Done(session_id,
                                      extract10DataPoints(patternMatchedData(TextOf(storedContent)), Threw))
    /\ UNCHANGED <<pipelineVars, callVars, extractVars, read>>
    /\ UNCHANGED clientVars

\* the LLM call of an ocr10 request returns; the handler runs to its end
OCR10Resolved ==
    /\ \E r \in 1..Len(requests), fetch \in ExtractionFetches :
          /\ requests[r].handler = "handleOCR10"
          /\ requests[r].pc = "llm"
          /\ \E extracted10Data \in
                 {extract10DataPoints(patternMatchedData(requests[r].extractedText),
                                      callGeminiApi([key |-> llm.key, fetch |-> fetch]))} :
                /\ extractedContents' =
                       AttachRecord(extractedContents, requests[r].session_id, extracted10Data)
                /\ Answer(r, Reply(200, [success |-> TRUE, session_id |-> requests[r].session_id,
                                         extracted_data |-> extracted10Data]))
    /\ UNCHANGED <<pipelineVars, callVars, extractVars, llmCalls, read>>
    /\ UNCHANGED clientVars

\* handleChatWithPDF up to its LLM call
HandleChatWithPDF ==
    /\ \E action \in Actions, session_id \in RequestedSessions :
          /\ Dispatch(action) = "handleChatWithPDF"
          /\ \E pdfContent \in {Lookup(extractedContents, SessionOrDefault(session_id))} :
                IF pdfContent = Undefined
                THEN /\ Arrive(Request(action, Absent, session_id),
                               Reply(404, [error |-> "Session not found"]))
                     /\ UNCHANGED <<llmCalls, read>>
                ELSE /\ read' = Extracted10OrEmpty(pdfContent)
                     /\ llmCalls' = llmCalls + 1
                     /\ IF llm.key
                        THEN Arrive([Request(action, Absent, session_id) EXCEPT !.pc = "llm"], NoRecord)
                        ELSE Arrive(Request(action, Absent, session_id),
                                    Reply(500, [success |-> FALSE, session_id |-> "default"]))
    /\ UNCHANGED <<pipelineVars, callVars, extractVars, extractedContents>>
    /\ UNCHANGED clientVars

\* the LLM call of a chatwithpdf request returns
ChatWithPDFResolved ==
    /\ \E r \in 1..Len(requests), fetch \in ChatFetches :
          /\ requests[r].handler = "handleChatWithPDF"
          /\ requests[r].pc = "llm"
          /\ Answer(r, Reply(200, [success |-> TRUE,
                                   answer |-> callGeminiApi([key |-> llm.key, fetch |-> fetch]).prose,
                                   session_id |-> SessionOrDefault(requests[r].session_id)]))
    /\ UNCHANGED <<pipelineVars, callVars, extractVars, extractedContents, llmCalls, read>>
    /\ UNCHANGED clientVars

\* handleGeneralChat up to its LLM call
HandleGeneralChat ==
    /\ \E action \in Actions :
          /\ Dispatch(action) = "handleGeneralChat"
          /\ IF llm.key
             THEN Arrive([Request(action, Absent, Missing) EXCEPT !.pc = "llm"], NoRecord)
             ELSE Arrive(Request(action, Absent, Missing), Reply(500, [success |-> FALSE]))
    /\ llmCalls' = llmCalls + 1
    /\ UNCHANGED <<pipelineVars, callVars, extractVars, extractedContents, read>>
    /\ UNCHANGED clientVars

\* the LLM call of a chat request returns
GeneralChatResolved ==
    /\ \E r \in 1..Len(requests), fetch \in ChatFetches :
          /\ requests[r].handler = "handleGeneralChat"
          /\ requests[r].pc = "llm"
          /\ Answer(r, Reply(200, [success |-> TRUE,
                                   answer |-> callGeminiApi([key |-> llm.key, fetch |-> fetch]).prose]))
    /\ UNCHANGED <<pipelineVars, callVars, extractVars, extractedContents, llmCalls, read>>
    /\ UNCHANGED clientVars

\* handleOCR10 at line 780, its three checks passed: the session holds the
\* text of an uploaded file and extract10DataPointsWithGemini is entered
InitOcr10 ==
    /\ IdleClient
    /\ IdleExtract /\ IdlePipeline
    /\ pc = "patterns"
    /\ llm \in LlmOutcomes
    /\ response = NoRecord
    /\ \E file \in Ocr10Files, session_id \in SessionIds :
          /\ extractedContents = StoreContent(<<>>, session_id, StoredContent(processPDF(file), file))
          /\ requests = <<[Request("ocr10", Absent, session_id) EXCEPT
                               !.pc = "running", !.extractedText = processPDF(file).text]>>
    /\ replies = <<NoRecord>>
    /\ llmCalls = 0
    /\ read = NoRecord

\* lines 466-480: the six extractors, then the pattern record
PatternExtractors ==
    /\ pc = "patterns"
    /\ patternData' = patternMatchedData(requests[1].extractedText)
    /\ pc' = "call"
    /\ UNCHANGED <<aiData, aiBefore, mergedData, data, finalData, value, result>>
    /\ UNCHANGED <<callVars, extractVars, serverVars>>
    /\ UNCHANGED clientVars

\* lines 781-790: the returned record is attached to the session and sent
AttachExtracted10Data ==
    /\ pc = "final"
    /\ requests # <<>>
    /\ extractedContents' = AttachRecord(extractedContents, requests[1].session_id, finalData)
    /\ Answer(1, Reply(200, [success |-> TRUE, session_id |-> requests[1].session_id,
                             extracted_data |-> finalData]))
    /\ pc' = "written"
    /\ UNCHANGED <<aiData, aiBefore, patternData, mergedData, data, finalData, value, result>>
    /\ UNCHANGED <<callVars, extractVars, llmCalls, read>>
    /\ UNCHANGED clientVars

\* one ocr10 request, statement by statement
NextOcr10 ==
    \/ PatternExtractors
    \/ CallGeminiApi
    \/ ExtractJsonFromResponse
    \/ RobustDataMerging
    \/ FinalValidationAndCalculation
    \/ CatchFallback
    \/ AttachExtracted10Data

Ocr10Spec == InitOcr10 /\ [][NextOcr10]_vars

NextServer ==
    \/ PostWithoutHandler
    \/ HandleOCR
    \/ HandleOCR10
    \/ OCR10Resolved
    \/ HandleChatWithPDF
    \/ ChatWithPDFResolved
    \/ HandleGeneralChat
    \/ GeneralChatResolved

ServerSpec == InitServer /\ [][NextServer]_vars

Next ==
    \/ ExtractTransactionsFromText
    \/ CallGeminiApi
    \/ ExtractJsonFromResponse
    \/ RobustDataMerging
    \/ FinalValidationAndCalculation
    \/ FinalValidationAndCalculationCall
    \/ CatchFallback
    \/ IsValidDataCall
    \/ ExtractCustomerInfoFromText

Spec == Init /\ [][Next]_vars

---------------------------------------------------------------------------
(* The assistant page (src/unnamed/part_000, AssistantPage) *)

\* most startConversation calls in a run
MaxQuestions == 3

\* starterPrompts, dummyHistory and what the user types
Questions == {"When is my next payment due?", "Show all transactions from Amazon."}

UserMessage(firstMessage) == [sender |-> "user", text |-> <<firstMessage>>]

Thinking == [sender |-> "ai", text |-> <<"Thinking...">>]

\* `This is a simulated response to: "${firstMessage}"`
SimulatedResponse(firstMessage) ==
    [sender |-> "ai", text |-> <<"This is a simulated response to: ", firstMessage>>]

\* updatedMessages[updatedMessages.length - 1] = message
ReplaceLast(prev, message) ==
    IF prev = <<>> THEN prev ELSE [prev EXCEPT ![Len(prev)] = message]

InitAssistant ==
    /\ IdleCall /\ IdleExtract /\ IdleServer /\ IdlePipeline
    /\ pc = "assistant"
    /\ assistant = [isChatStarted |-> FALSE, isHistoryVisible |-> FALSE, messages |-> <<>>]
    /\ timers = <<>>
    /\ home = NoRecord
    /\ awaiting = NoRecord

assistantFrame == <<pipelineVars, callVars, extractVars, serverVars, home, awaiting>>

\* startConversation(firstMessage), from a starter prompt, a history item or
\* the form (handleFormSubmit passes a non-blank inputValue).  The page is
\* rendered again before the next event, so messages is the current list.
StartConversation ==
    /\ pc = "assistant"
    /\ Len(timers) < MaxQuestions
    /\ \E firstMessage \in Questions :
          /\ assistant' =
                 [isChatStarted |-> TRUE,
                  isHistoryVisible |-> IF assistant.isChatStarted
                                       THEN assistant.isHistoryVisible ELSE TRUE,
                  messages |-> Append(assistant.messages, UserMessage(firstMessage))]
          /\ timers' = Append(timers, [firstMessage |-> firstMessage, fired |-> 0])
    /\ UNCHANGED assistantFrame

\* the 500 ms timer of call k fires; the timers of the earlier calls that ran
\* for 500 ms have fired before it
ThinkingTimer ==
    /\ pc = "assistant"
    /\ \E k \in 1..Len(timers) :
          /\ timers[k].fired = 0
          /\ \A j \in 1..(k - 1) : timers[j].fired >= 1
          /\ assistant' = [assistant EXCEPT !.messages = Append(@, Thinking)]
          /\ timers' = [timers EXCEPT ![k].fired = 1]
    /\ UNCHANGED assistantFrame

\* the 2000 ms timer of call k fires, after its 500 ms timer and after the
\* 2000 ms timers of the earlier calls
ResponseTimer ==
    /\ pc = "assistant"
    /\ \E k \in 1..Len(timers) :
          /\ timers[k].fired = 1
          /\ \A j \in 1..(k - 1) : timers[j].fired = 2
          /\ assistant' = [assistant EXCEPT
                              !.messages = ReplaceLast(@, SimulatedResponse(timers[k].firstMessage))]
          /\ timers' = [timers EXCEPT ![k].fired = 2]
    /\ UNCHANGED assistantFrame

\* the two buttons of the history panel: setIsHistoryVisible(true / false)
SetIsHistoryVisible ==
    /\ pc = "assistant"
    /\ \E visible \in BOOLEAN : assistant' = [assistant EXCEPT !.isHistoryVisible = visible]
    /\ UNCHANGED <<assistantFrame, timers>>

NextAssistant == StartConversation \/ ThinkingTimer \/ ResponseTimer \/ SetIsHistoryVisible

AssistantSpec == InitAssistant /\ [][NextAssistant]_vars

---------------------------------------------------------------------------
(* The home page (src/card-sense/src/app/home/page.tsx, HomePage) *)

\* longest chat of the home page
MaxMessages == 4

sAt == <<"@">>

sAttachment == <<"@","a","t","t","a","c","h","m","e","n","t">>

sTotalDue == <<"t","o","t","a","l"," ","d","u","e","?">>

\* what the input field can hold
InputValues ==
    {<<>>, <<" ">>, sTotalDue, sAt \o sTotalDue, sAttachment \o <<" ">> \o sTotalDue}

\* String.prototype.includes
Includes(w, part) == \E i \in 1..(Len(w) - Len(part) + 1) : SubSeq(w, i, i + Len(part) - 1) = part

\* event.target.files?.[0]: nothing, a file that is no PDF, a PDF
SelectedFiles ==
    {Absent, [name |-> "notes.txt", type |-> "text/plain"],
     [name |-> "statement.pdf", type |-> "application/pdf"]}

\* what the fetch of /ocr can come to
OcrOutcomes ==
    {[t |-> "reject"], [t |-> "status"], [t |-> "ok", data |-> [success |-> FALSE]]}
    \cup {[t |-> "ok", data |-> [success |-> TRUE, session_id |-> Str(id)]] :
            id \in {<<"s","1">>, <<"s","2">>}}

\* what the fetch of /ocr-10 can come to
Ocr10Outcomes ==
    {[t |-> "reject"], [t |-> "status"], [t |-> "ok", data |-> [success |-> FALSE]],
     [t |-> "ok", data |-> [success |-> TRUE, extracted_data |-> createCompleteFallbackData]]}

\* what the fetch of /chat or /chatwithpdf can come to
ChatOutcomes ==
    {[t |-> "reject"], [t |-> "status"], [t |-> "ok", data |-> [success |-> FALSE]],
     [t |-> "ok", data |-> [success |-> TRUE, answer |-> "answer"]]}

\* the try block up to the test of data.success: the data, or Threw
FetchedData(outcome) ==
    IF outcome.t = "ok" /\ outcome.data.success THEN outcome.data ELSE Threw

resetState(h) ==
    [h EXCEPT !.uploadedFile = Null, !.sessionId = Null, !.ocrData = Null, !.ocr10Data = Null,
              !.isUploading = FALSE, !.isLoading10Keys = FALSE, !.messages = <<>>]

\* what the left column shows
UploadCardShown(h) == h.sessionId = Null /\ ~h.isUploading

SpinnerShown(h) == h.isUploading \/ h.isLoading10Keys

DashboardShown(h) == h.ocr10Data # Null

InitHome ==
    /\ IdleCall /\ IdleExtract /\ IdleServer /\ IdlePipeline
    /\ pc = "home"
    /\ assistant = NoRecord
    /\ timers = <<>>
    /\ home = [uploadedFile |-> Null, sessionId |-> Null, ocrData |-> Null, ocr10Data |-> Null,
               isUploading |-> FALSE, isLoading10Keys |-> FALSE, messages |-> <<>>,
               inputValue |-> <<>>, isLoadingAI |-> FALSE, showAttachmentSuggestion |-> FALSE]
    /\ awaiting = [file |-> "none", chats |-> <<>>]

homeFrame == <<pipelineVars, callVars, extractVars, serverVars, assistant, timers>>

\* handleFileChange up to its fetch of /ocr; the file input is part of the
\* upload card
HandleFileChange ==
    /\ pc = "home"
    /\ UploadCardShown(home)
    /\ \E file \in SelectedFiles :
          IF file = Absent \/ file.type # "application/pdf"
          THEN UNCHANGED <<home, awaiting>>
          ELSE /\ home' = [resetState(home) EXCEPT !.uploadedFile = file, !.isUploading = TRUE]
               /\ awaiting' = [awaiting EXCEPT !.file = "ocr"]
    /\ UNCHANGED homeFrame

\* the fetch of /ocr settles: on success handleFileChange goes on into
\* fetchOcr10Data up to its fetch, otherwise to its catch and finally blocks
OcrSettles ==
    /\ pc = "home"
    /\ awaiting.file = "ocr"
    /\ \E outcome \in OcrOutcomes :
          IF FetchedData(outcome) = Threw
          THEN /\ home' = [resetState(home) EXCEPT !.isUploading = FALSE]
               /\ awaiting' = [awaiting EXCEPT !.file = "none"]
          ELSE /\ home' = [home EXCEPT !.ocrData = outcome.data,
                                       !.sessionId = outcome.data.session_id,
                                       !.isLoading10Keys = TRUE]
               /\ awaiting' = [awaiting EXCEPT !.file = "ocr10"]
    /\ UNCHANGED homeFrame

\* the fetch of /ocr-10 settles: fetchOcr10Data runs to its end (it catches
\* its own errors), then handleFileChange runs its finally block
Ocr10Settles ==
    /\ pc = "home"
    /\ awaiting.file = "ocr10"
    /\ \E outcome \in Ocr10Outcomes :
          home' = [home EXCEPT
                     !.ocr10Data = IF FetchedData(outcome) = Threw THEN @ ELSE outcome.data,
                     !.isLoading10Keys = FALSE,
                     !.isUploading = FALSE]
    /\ awaiting' = [awaiting EXCEPT !.file = "none"]
    /\ UNCHANGED homeFrame

\* the button of the dashboard header: onClick={resetState}
ResetState ==
    /\ pc = "home"
    /\ DashboardShown(home)
    /\ home' = resetState(home)
    /\ UNCHANGED <<homeFrame, awaiting>>

HandleInputChange ==
    /\ pc = "home"
    /\ \E inputValue \in InputValues :
          home' = [home EXCEPT
                     !.inputValue = inputValue,
                     !.showAttachmentSuggestion =
                         /\ home.uploadedFile # Null
                         /\ Includes(inputValue, sAt)
                         /\ ~Includes(inputValue, sAttachment)]
    /\ UNCHANGED <<homeFrame, awaiting>>

\* uploadedFile && inputValue.includes("@attachment")
IsAttachmentQuery(h) == h.uploadedFile # Null /\ Includes(h.inputValue, sAttachment)

\* handleFormSubmit up to its fetch
HandleFormSubmit ==
    /\ pc = "home"
    /\ Len(home.messages) < MaxMessages
    /\ IF TrimBlanks(home.inputValue) = <<>> \/ home.isLoadingAI
       THEN UNCHANGED <<home, awaiting>>
       ELSE /\ home' = [home EXCEPT
                           !.showAttachmentSuggestion = FALSE,
                           !.messages = Append(@, [sender |-> "user", text |-> home.inputValue,
                                                   isAttachment |-> IsAttachmentQuery(home)]),
                           !.inputValue = <<>>,
                           !.isLoadingAI = TRUE]
            /\ awaiting' = [awaiting EXCEPT
                               !.chats = Append(@, [endpoint |-> IF IsAttachmentQuery(home)
                                                                 THEN "/chatwithpdf" ELSE "/chat",
                                                    question |-> home.inputValue,
                                                    session_id |-> home.sessionId])]
    /\ UNCHANGED homeFrame

\* the message the try or the catch block of handleFormSubmit appends
AiMessage(outcome) ==
    IF FetchedData(outcome) = Threw
    THEN [sender |-> "ai", text |-> <<"Sorry, I encountered an error: ", outcome.t>>]
    ELSE [sender |-> "ai", text |-> <<outcome.data.answer>>]

\* the chats without the i-th
Without(chats, i) == SubSeq(chats, 1, i - 1) \o SubSeq(chats, i + 1, Len(chats))

\* the fetch of a chat request settles: the rest of handleFormSubmit
ChatSettles ==
    /\ pc = "home"
    /\ \E i \in 1..Len(awaiting.chats), outcome \in ChatOutcomes :
          /\ home' = [home EXCEPT !.messages = Append(@, AiMessage(outcome)),
                                   !.isLoadingAI = FALSE]
          /\ awaiting' = [awaiting EXCEPT !.chats = Without(@, i)]
    /\ UNCHANGED homeFrame

NextHome ==
    \/ HandleFileChange
    \/ OcrSettles
    \/ Ocr10Settles
    \/ ResetState
    \/ HandleInputChange
    \/ HandleFormSubmit
    \/ ChatSettles

HomeSpec == InitHome /\ [][NextHome]_vars

---------------------------------------------------------------------------
(* Claims *)

SameLetter(c, d) ==
    c = d \/ \E i \in 1..26 : {c, d} = {UpperLetters[i], LowerLetters[i]}

EqualsIgnoringCase(s, w) ==
    Len(s) = Len(w) /\ \A i \in 1..Len(s) : SameLetter(s[i], w[i])

\* C10: isValidData returns false exactly for null, undefined, NaN, an empty
\* array, an object without keys and a string that equals, ignoring case, one
\* of "null", "na", "n/a", "", "undefined"; it returns true for every other
\* value, numeric 0 included.
C10_ValidatorRules ==
    pc = "probed" =>
        (result = FALSE <=>
            \/ value \in {Null, Undefined, NaN, Arr(<<>>), EmptyObj}
            \/ /\ value.t = "str"
               /\ \E w \in InvalidStrings : EqualsIgnoringCase(value.str, w))

\* an upper-case placeholder was rejected, and zero was accepted
C10_Witness ==
    pc = "probed" /\ value = Str(sNA) /\ result = FALSE

---------------------------------------------------------------------------
(* finalValidationAndCalculation *)

Finalized == pc = "final"

FinalReward == Get(finalData, "reward_points_summary")

\* C1: The record returned by finalValidationAndCalculation has exactly the 11
\* StatementRecord keys, none of them undefined; transactions is a sequence;
\* reward_points_summary is an object with exactly the keys opening_balance,
\* earned and closing_balance.
C1_FullKeySet ==
    Finalized =>
        /\ finalData.t = "obj"
        /\ DOMAIN finalData.obj = Fields
        /\ \A f \in Fields : finalData.obj[f] # Undefined
        /\ finalData.obj["transactions"].t = "arr"
        /\ FinalReward.t = "obj"
        /\ DOMAIN FinalReward.obj = RewardKeys
        /\ \A k \in RewardKeys : FinalReward.obj[k] # Undefined

\* the difference of the numbers two usable values denote
NumericDifference(x, y) ==
    IF x.t = "num" /\ y.t = "num" THEN Num(x.num - y.num) ELSE NaN

DifferenceOf(c, t) == NumericDifference(ToNumber(c), ToNumber(t))

\* C2: In a finalized record whose credit_limit and total_amount_due are usable
\* and whose input available_credit_limit was not usable, available_credit_limit
\* is credit_limit minus total_amount_due; no finalized record has both known
\* and available_credit_limit null.
C2_AvailableCreditDerived ==
    Finalized =>
        LET credit == Get(finalData, "credit_limit")
            total  == Get(finalData, "total_amount_due")
            avail  == Get(finalData, "available_credit_limit")
        IN  (isValidData(credit) /\ isValidData(total)) =>
               /\ avail # Null
               /\ ~isValidData(Get(data, "available_credit_limit")) =>
                      avail = DifferenceOf(credit, total)

\* 50000.00 and 2000.00 with no available credit in the input gave 48000.00
C2_Witness ==
    /\ Finalized
    /\ ~isValidData(Get(data, "available_credit_limit"))
    /\ Get(finalData, "credit_limit") = Num(5000000)
    /\ Get(finalData, "total_amount_due") = Num(200000)
    /\ Get(finalData, "available_credit_limit") = Num(4800000)

\* the sum of two numbers
SumOf(x, y) == IF x.t = "num" /\ y.t = "num" THEN Num(x.num + y.num) ELSE NaN

\* C3: In a finalized record whose reward opening_balance and earned are
\* usable and whose input closing_balance was not usable, closing_balance is
\* the sum of opening_balance and earned.
C3_ClosingBalanceDerived ==
    (Finalized /\ FinalReward.t = "obj") =>
        LET opening == Get(FinalReward, "opening_balance")
            earned  == Get(FinalReward, "earned")
            inputClosing == Get(Get(data, "reward_points_summary"), "closing_balance")
        IN  (isValidData(opening) /\ isValidData(earned) /\ ~isValidData(inputClosing)) =>
               Get(FinalReward, "closing_balance") = SumOf(ToNumber(opening), ToNumber(earned))

\* C4: In a finalized record whose total_amount_due is a usable number and
\* whose input minimum_amount_due was not usable, minimum_amount_due is 5% of
\* the total rounded to hundredths, round(total * 5 / 100) on hundredths; a
\* usable input minimum_amount_due is kept.
C4_MinimumDueFivePercent ==
    Finalized =>
        LET total == Get(finalData, "total_amount_due")
            inputMinimum == Get(data, "minimum_amount_due")
        IN  /\ (total.t = "num" /\ ~isValidData(inputMinimum)) =>
                  Get(finalData, "minimum_amount_due") = Num((total.num * 5 + 50) \div 100)
            /\ isValidData(inputMinimum) =>
                  Get(finalData, "minimum_amount_due") = inputMinimum

---------------------------------------------------------------------------
(* robustDataMerging *)

\* robustDataMerging has returned a record
Merged == pc \in {"merged", "final"} /\ mergedData.t = "obj"

\* merged holds for f exactly what the LLM record held, a missing key included
KeepsLlm(f) ==
    /\ HasKey(mergedData, f) <=> HasKey(aiBefore, f)
    /\ Get(mergedData, f) = Get(aiBefore, f)

\* C5: For customer_name, card_number and bank_name the merged record holds the
\* pattern value whenever that value is usable, whatever the LLM value is, and
\* the unchanged LLM value when the pattern value is not usable.
C5_PatternWinsIdentity ==
    Merged =>
        \A f \in {"customer_name", "card_number", "bank_name"} :
            IF isValidData(Get(patternData, f))
            THEN Get(mergedData, f) = Get(patternData, f)
            ELSE KeepsLlm(f)

\* a usable pattern name replaced a different usable LLM name
C5_Witness ==
    /\ Merged
    /\ Get(patternData, "customer_name") = Str(sJohn)
    /\ Get(aiBefore, "customer_name") = Str(sJane)
    /\ Get(mergedData, "customer_name") = Str(sJohn)

\* length of the LLM's transaction list, an absent list counting as 0
LlmListLength == 
    LET l == Get(aiBefore, "transactions")
    IN  IF l.t = "arr" THEN Len(l.arr) ELSE 0

\* C6: The merged transactions are the pattern extractor's list if and only if
\* that list is strictly longer than the LLM's list (an absent LLM list counts
\* as length 0); otherwise the LLM's transactions are kept.
C6_LongerListWins ==
    Merged =>
        LET pl == Get(patternData, "transactions")
        IN  IF Len(pl.arr) > LlmListLength
            THEN Get(mergedData, "transactions") = pl
            ELSE KeepsLlm("transactions")

LlmFirstFields ==
    {"total_amount_due", "minimum_amount_due", "credit_limit", "available_credit_limit",
     "statement_date", "payment_due_date"}

\* C7: For every financial and date field, a usable LLM value (numeric 0
\* included) is kept in the merged record whatever the pattern extractor found.
C7_UsableLlmKept ==
    Merged =>
        \A f \in LlmFirstFields :
            isValidData(Get(aiBefore, f)) => Get(mergedData, f) = Get(aiBefore, f)

\* C8: For every financial and date field, when the LLM value is not usable
\* and the pattern value is usable according to isValidData (numeric 0
\* included), the merged record holds the pattern value.
C8_ValidatorGatesFill ==
    Merged =>
        \A f \in LlmFirstFields :
            (~isValidData(Get(aiBefore, f)) /\ isValidData(Get(patternData, f)))
                => Get(mergedData, f) = Get(patternData, f)

\* C9: For each sub-field of reward_points_summary the merged record holds the
\* LLM value when it is usable and otherwise the pattern value when that one
\* is usable, also when the LLM record has no reward_points_summary.
C9_RewardSubFields ==
    Merged =>
        \A k \in RewardKeys :
            LET lv == Get(Get(aiBefore, "reward_points_summary"), k)
                pv == Get(Get(patternData, "reward_points_summary"), k)
                mv == Get(Get(mergedData, "reward_points_summary"), k)
            IN  /\ isValidData(lv) => mv = lv
                /\ (~isValidData(lv) /\ isValidData(pv)) => mv = pv

\* the record of the catch block: the pattern-only record, finalized
PatternOnlyRecord == finalValidationAndCalculation(fallbackFromPattern(patternData))

\* C11: whenever the LLM call fails (no key, fetch rejected, non-OK status),
\* extract10DataPointsWithGemini returns the pattern-matched-only record
\* passed through finalValidationAndCalculation, the same on every failure
\* path, with every usable pattern value (0 included) in it.
C11_FailurePathsAgree ==
    (pc = "final" /\ llm \in LlmFailures) => finalData = PatternOnlyRecord

\* the second pass of the reconciliation over its own result
SecondPass == robustDataMerging(finalData, patternData).merged

\* C19: with r = finalValidationAndCalculation(robustDataMerging(llm, pattern)),
\* finalValidationAndCalculation(robustDataMerging(r, pattern)) equals r.
C19_ReconciliationIdempotent ==
    (pc = "final" /\ mergedData \notin {NoRecord, Threw}) =>
        /\ SecondPass # Threw
        /\ finalValidationAndCalculation(SecondPass) = finalData

RECURSIVE SplitAt(_, _)
\* the pieces of w between occurrences of the character c
SplitAt(w, c) ==
    IF \E i \in 1..Len(w) : w[i] = c
    THEN <<SubSeq(w, 1, (CHOOSE i \in 1..Len(w) : w[i] = c /\ \A k \in 1..(i - 1) : w[k] # c) - 1)>>
         \o SplitAt(SubSeq(w, (CHOOSE i \in 1..Len(w) : w[i] = c /\ \A k \in 1..(i - 1) : w[k] # c) + 1,
                           Len(w)), c)
    ELSE <<w>>

RECURSIVE JoinWords(_)
JoinWords(ws) ==
    IF Len(ws) = 1 THEN ws[1] ELSE ws[1] \o <<" ">> \o JoinWords(Tail(ws))

sCR == <<"C","R">>

\* the words of a line without its trailing CR marker
WithoutMarker(ws) == IF ws[Len(ws)] = sCR THEN SubSeq(ws, 1, Len(ws) - 1) ELSE ws

IsAmountWord(w) ==
    /\ \A i \in 1..Len(w) : w[i] \in AmountChars \cup {"."}
    /\ \E i \in 1..Len(w) : w[i] \in Digits

\* a line that reads: date, description, amount, optional CR
IsTransactionWords(ws) ==
    /\ Len(WithoutMarker(ws)) >= 3
    /\ Len(ws[1]) = 10 /\ DateAt(ws[1], 1)
    /\ IsAmountWord(WithoutMarker(ws)[Len(WithoutMarker(ws))])

LineAmount(ws) == parseFloat(RemoveCommas(WithoutMarker(ws)[Len(WithoutMarker(ws))]))

\* the transaction a line stands for
LineTransaction(ws) ==
    Obj([date |-> Str(ws[1]),
         description |-> Str(JoinWords(SubSeq(WithoutMarker(ws), 2, Len(WithoutMarker(ws)) - 1))),
         amount |-> IF ws[Len(ws)] = sCR THEN Negate(LineAmount(ws)) ELSE LineAmount(ws)])

RECURSIVE LineTransactions(_)
LineTransactions(ls) ==
    IF ls = <<>> THEN <<>>
    ELSE (IF IsTransactionWords(SplitAt(Head(ls), " ")) THEN <<LineTransaction(SplitAt(Head(ls), " "))>>
          ELSE <<>>) \o LineTransactions(Tail(ls))

\* the lines of the transaction section of the text
SectionLines == SplitAt(TransactionSection(text), "\n")

\* every amount of the section is a number
AmountsNumeric ==
    \A i \in 1..Len(SectionLines) :
        LET ws == WithoutMarker(SplitAt(SectionLines[i], " "))
        IN  (Len(ws[1]) = 10 /\ DateAt(ws[1], 1)) => IsAmountWord(ws[Len(ws)])

\* C20: the transactions produced are, in the order of the lines of the
\* section, one per transaction line, with the line's date and description
\* and the line's amount, negated exactly when the line ends with CR.
C20_TransactionPerLine ==
    (pc = "extracted" /\ AmountsNumeric) => transactions = Arr(LineTransactions(SectionLines))

\* the text w holds the letters e-m-a-i-l somewhere, in either case
ContainsEmail(w) == \E i \in 1..Len(w) : WordAt(w, i, sEmail)

\* C21: the customer_name returned by extractCustomerInfoFromText never
\* contains the word "email".
C21_NameWithoutEmail ==
    (pc = "customer-done" /\ Get(customerData, "customer_name").t = "str")
        => ~ContainsEmail(Get(customerData, "customer_name").str)

\* C24: no transaction with a non-numeric (NaN) amount is in the list that
\* extractTransactionsFromText returns: a matched line whose amount token
\* does not parse to a number is skipped.
C24_NoNaNAmount ==
    pc = "extracted" =>
        \A i \in 1..Len(transactions.arr) : Get(transactions.arr[i], "amount").t # "nan"

\* C25: finalValidationAndCalculation is idempotent: a second pass over its
\* result gives that result again, the derived values included.
C25_FinalizeIdempotent ==
    pc \in {"final", "finalized"} => finalValidationAndCalculation(finalData) = finalData

\* a first pass that derived the three values has been made
C25_Witness ==
    /\ pc = "finalized"
    /\ ~isValidData(Get(data, "available_credit_limit"))
    /\ isValidData(Get(finalData, "available_credit_limit"))
    /\ ~isValidData(Get(data, "minimum_amount_due"))
    /\ isValidData(Get(finalData, "minimum_amount_due"))

\* C26: robustDataMerging does not modify its arguments: after the call the
\* LLM record, its nested reward_points_summary included, is what it was
\* when the call was entered.
C26_ArgumentsUnmodified ==
    (pc \in {"merged", "catch"} /\ aiBefore # NoRecord) => aiData = aiBefore

\* C23: extractJsonFromResponse returns the object a well-formed document
\* denotes, with or without a code fence around it; a document that only
\* parses after the tolerant repair is repaired and parsed, with or without a
\* code fence (the failed parse of the fenced block falls through); the
\* fully-null fallback record is returned only when nothing parses.
C23_ParsePriority ==
    (pc = "start" /\ response \notin {NoRecord, Threw}) =>
        /\ response.json.t = "obj" => aiBefore = response.json
        /\ (response.json.t = "loose" /\ ~CleanBreaks(response.json.denotes))
              => aiBefore = response.json.denotes
        /\ response.json.t \in {"nojson", "garbage"} => aiBefore = createCompleteFallbackData

---------------------------------------------------------------------------
(* Claims about the request handlers *)

\* the record has exactly the 11 keys
FullKeySet(record) == record.t = "obj" /\ DOMAIN record.obj = Fields

\* a successful ocr10 answer with a full record
Ocr10Success(reply) ==
    /\ reply.status = 200
    /\ reply.body.success
    /\ FullKeySet(reply.body.extracted_data)

\* a step in which a request arrives; it is the last of requests'
Arrives == Len(requests') = Len(requests) + 1

Arrived == requests'[Len(requests')]

ArrivedReply == replies'[Len(requests')]

\* a step in which the LLM call of request r returns
Resolves(r) == requests[r].pc = "llm" /\ requests'[r].pc = "done"

\* C12: an ocr10 request for an existing session (its text is never empty)
\* is never answered with an error: it waits for the LLM call or is answered
\* with success = true and a record with the full key set, and whatever the
\* LLM call gives (throw, error text, prose, JSON of another shape) the
\* answer is success = true with the full key set.
C12_Ocr10NeverFails ==
    [][ /\ (Arrives /\ Arrived.handler = "handleOCR10"
                    /\ Arrived.session_id \in DOMAIN extractedContents)
           => (Arrived.pc = "llm" \/ Ocr10Success(ArrivedReply))
        /\ \A r \in 1..Len(requests) :
              (requests[r].handler = "handleOCR10" /\ Resolves(r)) => Ocr10Success(replies'[r])
      ]_vars

\* an ocr10 request was answered with the all-null record
C12_Witness ==
    \E r \in 1..Len(requests) :
        /\ requests[r].handler = "handleOCR10"
        /\ requests[r].pc = "done"
        /\ replies[r].status = 200
        /\ replies[r].body.extracted_data = createCompleteFallbackData

\* the session an arriving request names
NamedSession(request) ==
    IF request.handler = "handleChatWithPDF" THEN SessionOrDefault(request.session_id)
    ELSE request.session_id

\* C13: an ocr10 or chatwithpdf request that names a session which is not a
\* key of the session store is answered with 404, makes no LLM call and
\* leaves the store unchanged.
C13_UnknownSessionNotFound ==
    [][ (Arrives /\ Arrived.handler \in {"handleOCR10", "handleChatWithPDF"}
                 /\ NamedSession(Arrived) # Missing
                 /\ NamedSession(Arrived) \notin DOMAIN extractedContents)
        => /\ ArrivedReply # NoRecord
           /\ ArrivedReply.status = 404
           /\ llmCalls' = llmCalls
           /\ extractedContents' = extractedContents
      ]_vars

\* the ocr10 request names no session or one without text
NoTextToProcess(request) ==
    \/ request.session_id = Missing
    \/ /\ Lookup(extractedContents, request.session_id) # Undefined
       /\ TextOf(Lookup(extractedContents, request.session_id)) = Undefined

FinalizedRecord(record) ==
    /\ FullKeySet(record)
    /\ CalculateMinimumDue(CalculateClosingBalance(CalculateAvailableCredit(record))) = record

\* C15: what a session holds as extracted_10_data, and what handleChatWithPDF
\* reads of it, is either no record ({} for the reader) or a complete
\* finalized record, under every interleaving of the requests.
C15_OnlyFinalizedVisible ==
    pc = "serve" =>
        /\ read \in {NoRecord, EmptyObj} \/ FinalizedRecord(read)
        /\ \A k \in DOMAIN extractedContents :
              \/ extractedContents[k].extracted_10_data = Absent
              \/ FinalizedRecord(extractedContents[k].extracted_10_data)

\* handleChatWithPDF has read the record that an ocr10 request attached
C15_Witness ==
    /\ pc = "serve"
    /\ read \notin {NoRecord, EmptyObj}
    /\ \E k \in DOMAIN extractedContents : extractedContents[k].extracted_10_data = read

\* C16: once a session has a record, no step changes that session's record.
C16_RecordAttachedOnce ==
    [][ \A k \in DOMAIN extractedContents :
           extractedContents[k].extracted_10_data # Absent
           => /\ k \in DOMAIN extractedContents'
              /\ extractedContents'[k].extracted_10_data = extractedContents[k].extracted_10_data
      ]_vars

\* the request that takes the step
Acting(r) == IF Arrives THEN r = Len(requests') ELSE requests'[r] # requests[r]

\* the session the acting request refers to
ActingSession(r) ==
    IF requests'[r].handler = "handleOCR" THEN replies'[r].body.session_id
    ELSE NamedSession(requests'[r])

\* the records extract10DataPointsWithGemini can return for a text
RecordsOf(extractedText) ==
    {extract10DataPoints(patternMatchedData(extractedText), answer) :
       answer \in {Threw} \cup {callGeminiApi([key |-> TRUE, fetch |-> f]) : f \in ExtractionFetches}}

C18_SessionIdFresh ==
    [][ (Arrives /\ Arrived.handler = "handleOCR" /\ ArrivedReply.status = 200)
        => ArrivedReply.body.session_id \notin DOMAIN extractedContents
      ]_vars

\* the raw artifacts of a stored document
RawArtifacts(content) ==
    [text |-> content.text, tables |-> content.tables,
     images_count |-> content.images_count, filename |-> content.filename]

\* every session is still there after the step, with its raw artifacts
SessionsKept ==
    \A k \in DOMAIN extractedContents :
        /\ k \in DOMAIN extractedContents'
        /\ RawArtifacts(extractedContents'[k]) = RawArtifacts(extractedContents[k])

\* a step of a chat or chatwithpdf request leaves the store alone
ChatsLeaveStore ==
    \A r \in 1..Len(requests') :
        (Acting(r) /\ requests'[r].handler \in {"handleGeneralChat", "handleChatWithPDF"})
        => extractedContents' = extractedContents

\* a chatwithpdf request for a session without record is not turned away: it
\* reads {} as the structured data and goes on to the LLM call
RecordlessChatAnswered ==
    (Arrives /\ Arrived.handler = "handleChatWithPDF"
             /\ NamedSession(Arrived) \in DOMAIN extractedContents
             /\ extractedContents[NamedSession(Arrived)].extracted_10_data = Absent)
    => /\ read' = EmptyObj
       /\ llmCalls' = llmCalls + 1
       /\ ArrivedReply = NoRecord \/ ArrivedReply.status # 404

\* C27: no step removes a stored session or changes its text, tables, image
\* count or file name; chat and chatwithpdf steps do not modify the store; a
\* chatwithpdf request on a session without record is answered from empty
\* structured data.
C27_SessionsPersist == [][SessionsKept /\ ChatsLeaveStore /\ RecordlessChatAnswered]_vars

---------------------------------------------------------------------------
(* Claims about the order of the steps of one ocr10 request *)

LlmCallStarts == pc = "call" /\ pc' # "call"

MergeRuns == pc = "start" /\ pc' # "start"

FinalizeRuns == pc # "final" /\ pc' = "final"

SessionWritten == extractedContents' # extractedContents

\* the LLM call has returned a text
LlmResolved == response \notin {NoRecord, Threw}

\* C22: within one ocr10 request the pattern record is built before the LLM
\* call starts; robustDataMerging runs only once the call has resolved and
\* finalValidationAndCalculation only once it has resolved or failed;
\* finalization runs once, after the merge whenever there is one, and never
\* before it; the session is written only with the finalized record.
C22_StepOrder ==
    [][/\ LlmCallStarts => (patternData # NoRecord /\ response = NoRecord)
       /\ MergeRuns => (LlmResolved /\ finalData = NoRecord)
       /\ FinalizeRuns =>
             /\ response # NoRecord
             /\ finalData = NoRecord /\ finalData' # NoRecord
             /\ LlmResolved => mergedData # NoRecord
       /\ SessionWritten =>
             /\ pc = "final"
             /\ finalData # NoRecord
             /\ extractedContents' =
                    AttachRecord(extractedContents, requests[1].session_id, finalData)]_vars

\* a request that went through the merge has written its record: the
\* session holds the finalized record
C22_Witness ==
    /\ pc = "written"
    /\ mergedData \notin {NoRecord, Threw}
    /\ extractedContents[requests[1].session_id].extracted_10_data = finalData

---------------------------------------------------------------------------
(* Claims about the assistant page *)

RECURSIVE UserTexts(_)
\* the texts of the user messages of a list, in order
UserTexts(ms) ==
    IF ms = <<>> THEN <<>>
    ELSE (IF Head(ms).sender = "user" THEN <<Head(ms).text>> ELSE <<>>) \o UserTexts(Tail(ms))

\* the questions asked so far, in order
Asked == [k \in 1..Len(timers) |-> <<timers[k].firstMessage>>]

AllTimersFired == \A k \in 1..Len(timers) : timers[k].fired = 2

\* the number of messages of the list that are the response to firstMessage
ResponsesTo(ms, firstMessage) ==
    Cardinality({i \in 1..Len(ms) : ms[i] = SimulatedResponse(firstMessage)})

\* the number of times firstMessage was asked
TimesAsked(firstMessage) ==
    Cardinality({k \in 1..Len(timers) : timers[k].firstMessage = firstMessage})

\* C28: whatever the order of startConversation calls and timers, the user
\* messages of the list are the questions asked, unchanged and in order;
\* once all timers have fired no "Thinking..." placeholder is left and every
\* question has one response.
C28_MessagesKept ==
    pc = "assistant" =>
        /\ UserTexts(assistant.messages) = Asked
        /\ AllTimersFired =>
              /\ \A i \in 1..Len(assistant.messages) : assistant.messages[i] # Thinking
              /\ \A q \in Questions : ResponsesTo(assistant.messages, q) = TimesAsked(q)

---------------------------------------------------------------------------
(* Claims about the home page *)

\* C29: whenever no upload and no key-data extraction is in progress, the
\* upload card is shown (sessionId is null) or the dashboard with its reset
\* button is shown (ocr10Data is set).
C29_WayForward ==
    (pc = "home" /\ ~home.isUploading /\ ~home.isLoading10Keys)
        => (home.sessionId = Null \/ home.ocr10Data # Null)

\* user and AI messages take turns, a user message first
Alternates(ms) ==
    \A i \in 1..Len(ms) : ms[i].sender = IF i % 2 = 1 THEN "user" ELSE "ai"

\* C30: in the chat of the home page at most one request is in flight,
\* isLoadingAI is true exactly while one is, and the user and AI messages of
\* the list alternate: every user message is followed by one AI message
\* before the next user message.
C30_ChatAlternates ==
    pc = "home" =>
        /\ Len(awaiting.chats) <= 1
        /\ home.isLoadingAI <=> awaiting.chats # <<>>
        /\ Alternates(home.messages)

====
